---- MODULE Spec2Model ----
(***************************************************************************)
(* Dependency graph analysis engine of ldesign-analyzer:                   *)
(*   utils/graphUtils.ts          detectCycles, topologicalSort,           *)
(*                                findStronglyConnectedComponents          *)
(*   DependencyGraphBuilder.ts    module list -> graph                     *)
(*   CircularDependencyDetector.ts                                         *)
(*   DuplicateDetector.ts         duplicate packages, dependency tree      *)
(* Strings that the code concatenates or matches with a regular            *)
(* expression are sequences of tokens; a token is a character or a run of  *)
(* characters of one class ("node_modules", "lodash", "4.17.21").          *)
(***************************************************************************)
EXTENDS Integers, Sequences, FiniteSets, TLC

VARIABLES
    modules,      \* ModuleInfo[] handed to the analyzers
    graph,        \* { nodes, edges }
    pc,           \* which step of the run has completed
    cycles,       \* result of detectCycles
    circular,     \* result of CircularDependencyDetector.analyze
    components,   \* result of findStronglyConnectedComponents
    sorted,       \* result of topologicalSort
    moduleGroups, \* DuplicateDetector.analyze: the package name -> modules map
    duplicates,   \* result of DuplicateDetector.analyze
    trees,        \* result of DependencyTreeBuilder.analyze
    centrality,   \* result of calculateCentrality
    installation, \* the project directory VersionChecker scans
    conflicts,    \* result of VersionChecker.analyze
    calls,        \* the algorithms called so far on the same model, in order
    enabled,      \* CacheManager.enabled
    defaultTTL,   \* CacheManager.defaultTTL
    memoryCache,  \* CacheManager.memoryCache: key -> CacheEntry
    disk,         \* the files of cacheDir: path -> the CacheEntry parsed from it
    file,         \* the stat of the file the cached results are associated with
    now,          \* Date.now()
    ops,          \* the number of CacheManager calls and constructions made
    lastGet,      \* the get call that has just returned, with its result
    stored,       \* history: key -> the latest set(key) not deleted or cleared since
    invalidated,  \* history: the keys a get found stale against the file, not set since
    everSet,      \* history: the <<key, data>> pairs of the set calls made
    configFile,   \* what the working directory holds for ConfigManager.findConfigFile
    config,       \* ConfigManager.config
    lastLoad,     \* the load call that has just settled, with its outcome
    progress,     \* ProgressManager: phase, current, total
    lastProgress, \* the ProgressManager method that has just returned
    wpItems,      \* withProgress: items
    wpFailing,    \* the indexes of the items the processor throws for
    wpConcurrency, \* withProgress: options.concurrency
    wpQueue,      \* withProgress: queue (the indexes not yet shifted)
    wpWorkers,    \* withProgress: workers; each awaits one processor call or has ended
    wpResults,    \* withProgress: results
    wpCompleted,  \* withProgress: completed
    wpProgress,   \* withProgress: progress (its own ProgressManager)
    wpReturned,   \* the array the promise of withProgress resolved with
    wpStarted,    \* history: the indexes handed to the processor, in call order
    maxRetries,   \* retryOnError: maxRetries
    hasOnRetry,   \* retryOnError: whether an onRetry callback was passed
    attempt,      \* retryOnError: attempt
    lastError,    \* retryOnError: lastError
    retryState,   \* retryOnError: idle, calling (awaiting fn), waiting (awaiting the
                  \* delay), resolved or rejected
    retryOutcome, \* how the promise of retryOnError settled
    fnCalls,      \* history: the settled calls of fn, in order
    onRetryCalls, \* history: the <<attempt, error>> arguments of the onRetry calls
    recoveryStrategies, \* ErrorHandler.recoveryStrategies: the Map's entries in its order
    errorLog,     \* ErrorHandler.errorLog: the errors logged, oldest first
    lastHandle,   \* the handle call that has just settled, with its outcome
    analyzeAt,    \* Analyzer.analyze: idle, the phase whose promise it awaits, resolved
                  \* or rejected
    abortController, \* Analyzer.abortController: undefined, or whether it was aborted
    analyzeOptions,  \* config.analyze of the running call
    parsedModules,   \* whether parsedData.modules is non-empty
    startedPhases,   \* history: the analysis phases started, in order
    cancelledAt,     \* history: the phases that had started when cancel() aborted the run
    watcher,         \* WatchManager: new, starting (start awaits the first analysis),
                     \* watching (the FSWatcher is set), stopped or failed
    debounceTimer,   \* WatchManager.debounceTimer: undefined, or the file it was set for
                     \* and whether it is still to fire
    isAnalyzing,     \* WatchManager.isAnalyzing
    analysesRunning, \* the number of analyzer.analyze calls in flight
    watchedChanges,  \* history: the number of changes handed to handleFileChange
    analysesStarted, \* history: the number of analyses started
    unanalysed       \* history: a watched file changed and no analysis has started since

graphResults == <<cycles, circular, components, sorted>>
otherResults == <<moduleGroups, duplicates, trees>>

versionVars == <<installation, conflicts>>

cacheVars == <<enabled, defaultTTL, memoryCache, disk, file, now, ops, lastGet, stored,
               invalidated, everSet>>

configVars == <<configFile, config, lastLoad>>

progressVars == <<progress, lastProgress>>

withProgressVars == <<wpItems, wpFailing, wpConcurrency, wpQueue, wpWorkers, wpResults,
                      wpCompleted, wpProgress, wpReturned, wpStarted>>

retryVars == <<maxRetries, hasOnRetry, attempt, lastError, retryState, retryOutcome, fnCalls,
               onRetryCalls>>

handlerVars == <<recoveryStrategies, errorLog, lastHandle>>

analyzerVars == <<analyzeAt, abortController, analyzeOptions, parsedModules, startedPhases,
                  cancelledAt>>

watchVars == <<watcher, debounceTimer, isAnalyzing, analysesRunning, watchedChanges,
               analysesStarted, unanalysed>>

serviceVars == <<configVars, progressVars, withProgressVars, retryVars, handlerVars,
                 analyzerVars, watchVars>>

vars == <<modules, graph, pc, graphResults, otherResults, centrality, versionVars, calls,
          cacheVars, serviceVars>>

(***************************************************************************)
(* Bounds of the explored inputs.                                          *)
(***************************************************************************)
MaxNodes == 3
MaxEdges == 3
MaxModules == 2
MaxIdLen == 3
MaxRefs == 2
MaxDupModules == 2
MaxChain == 23
MaxRing == 5
MaxEntries == 2
MaxNested == 1
MaxOrderModules == 4
MaxRerunModules == 2
MaxCalls == 3
MaxOps == 3
MaxTime == 1
TtlShort == 1

(***************************************************************************)
(* Generic helpers.                                                        *)
(***************************************************************************)
Range(s) == { s[i] : i \in 1..Len(s) }

\* Array.prototype.indexOf, 1-based; 0 when absent (JS: -1)
IndexOf(s, x) ==
    IF \E i \in 1..Len(s) : s[i] = x
    THEN CHOOSE i \in 1..Len(s) : s[i] = x /\ \A j \in 1..(i - 1) : s[j] # x
    ELSE 0

\* the value of `string[] | null` when it is null
Null == [null |-> TRUE]
Some(v) == [null |-> FALSE, value |-> v]

(***************************************************************************)
(* graphUtils: adjacency lists.                                            *)
(***************************************************************************)
\* adjacency.get(node) || []  : targets of the edges leaving node, in edge order
Adjacency(edges, node) ==
    LET F[i \in 0..Len(edges)] ==
            IF i = 0 THEN <<>>
            ELSE IF edges[i].source = node
                 THEN Append(F[i - 1], edges[i].target)
                 ELSE F[i - 1]
    IN F[Len(edges)]

\* a reverse adjacency that was filled like the forward one
ReverseAdjacencyForward(edges, node) == Adjacency(edges, node)

\* reverseAdjacency.get(node) || [] : sources of the edges entering node
ReverseAdjacency(edges, node) ==
    LET F[i \in 0..Len(edges)] ==
            IF i = 0 THEN <<>>
            ELSE IF edges[i].target = node
                 THEN Append(F[i - 1], edges[i].source)
                 ELSE F[i - 1]
    IN F[Len(edges)]

(***************************************************************************)
(* graphUtils.detectCycles.  st = [visited, recStack, cycles] is the       *)
(* state the nested dfs closes over; path is the callee's own copy.        *)
(***************************************************************************)
RECURSIVE DcDfs(_, _, _, _), DcNeighbors(_, _, _, _, _)

\* the `for (const neighbor of neighbors)` loop of dfs, from index i on
DcNeighbors(edges, node, path, st, i) ==
    LET neighbors == Adjacency(edges, node) IN
    IF i > Len(neighbors)
    THEN [st EXCEPT !.recStack = @ \ {node}]
    ELSE LET neighbor == neighbors[i] IN
         IF neighbor \notin st.visited
         THEN DcNeighbors(edges, node, path, DcDfs(edges, neighbor, path, st), i + 1)
         ELSE IF neighbor \in st.recStack
         THEN LET cycleStart == IndexOf(path, neighbor) IN
              IF cycleStart # 0
              THEN DcNeighbors(edges, node, path,
                       [st EXCEPT !.cycles = Append(@,
                           Append(SubSeq(path, cycleStart, Len(path)), neighbor))],
                       i + 1)
              ELSE DcNeighbors(edges, node, path, st, i + 1)
         ELSE DcNeighbors(edges, node, path, st, i + 1)

DcDfs(edges, node, path, st) ==
    DcNeighbors(edges, node, Append(path, node),
        [st EXCEPT !.visited = @ \cup {node}, !.recStack = @ \cup {node}], 1)

detectCycles(g) ==
    LET F[i \in 0..Len(g.nodes)] ==
            IF i = 0 THEN [visited |-> {}, recStack |-> {}, cycles |-> <<>>]
            ELSE LET st == F[i - 1] IN
                 IF g.nodes[i].id \notin st.visited
                 THEN DcDfs(g.edges, g.nodes[i].id, <<>>, st)
                 ELSE st
    IN F[Len(g.nodes)].cycles

(***************************************************************************)
(* graphUtils.topologicalSort (Kahn).                                      *)
(***************************************************************************)
\* inDegree after the edge loop: a function on the node ids
InDegree(g) ==
    [id \in { g.nodes[i].id : i \in 1..Len(g.nodes) } |->
        Cardinality({ j \in 1..Len(g.edges) : g.edges[j].target = id })]

\* the queue seeded in the iteration order of the inDegree map (node order)
ZeroQueue(g) ==
    LET deg == InDegree(g)
        F[i \in 0..Len(g.nodes)] ==
            IF i = 0 THEN <<>>
            ELSE LET queue == F[i - 1] IN
                 IF deg[g.nodes[i].id] = 0 /\ g.nodes[i].id \notin Range(queue)
                 THEN Append(queue, g.nodes[i].id)
                 ELSE queue
    IN F[Len(g.nodes)]

RECURSIVE TsRelax(_, _, _, _), TsLoop(_, _, _, _)

\* the inner `for (const neighbor of neighbors)` loop: [inDegree, queue]
TsRelax(neighbors, i, inDegree, queue) ==
    IF i > Len(neighbors) THEN [inDegree |-> inDegree, queue |-> queue]
    ELSE LET neighbor == neighbors[i]
             newDegree == inDegree[neighbor] - 1
         IN TsRelax(neighbors, i + 1,
                [inDegree EXCEPT ![neighbor] = newDegree],
                IF newDegree = 0 THEN Append(queue, neighbor) ELSE queue)

\* the `while (queue.length > 0)` loop; yields result
TsLoop(edges, queue, inDegree, result) ==
    IF queue = <<>> THEN result
    ELSE LET node == Head(queue)
             r == TsRelax(Adjacency(edges, node), 1, inDegree, Tail(queue))
         IN TsLoop(edges, r.queue, r.inDegree, Append(result, node))

\* a sorter that drops the final length check and hands back what it has
topologicalSortPartial(g) ==
    Some(TsLoop(g.edges, ZeroQueue(g), InDegree(g), <<>>))

topologicalSort(g) ==
    LET result == TsLoop(g.edges, ZeroQueue(g), InDegree(g), <<>>) IN
    IF Len(result) # Len(g.nodes) THEN Null ELSE Some(result)

(***************************************************************************)
(* graphUtils.findStronglyConnectedComponents (Kosaraju).                  *)
(***************************************************************************)
RECURSIVE Dfs1(_, _, _), Dfs1Neighbors(_, _, _, _)

\* st = [visited, stack]
Dfs1Neighbors(edges, node, st, i) ==
    LET neighbors == Adjacency(edges, node) IN
    IF i > Len(neighbors)
    THEN [st EXCEPT !.stack = Append(@, node)]
    ELSE IF neighbors[i] \notin st.visited
         THEN Dfs1Neighbors(edges, node, Dfs1(edges, neighbors[i], st), i + 1)
         ELSE Dfs1Neighbors(edges, node, st, i + 1)

Dfs1(edges, node, st) ==
    Dfs1Neighbors(edges, node, [st EXCEPT !.visited = @ \cup {node}], 1)

\* the finish-order stack of the first pass
FinishStack(g) ==
    LET F[i \in 0..Len(g.nodes)] ==
            IF i = 0 THEN [visited |-> {}, stack |-> <<>>]
            ELSE LET st == F[i - 1] IN
                 IF g.nodes[i].id \notin st.visited
                 THEN Dfs1(g.edges, g.nodes[i].id, st)
                 ELSE st
    IN F[Len(g.nodes)].stack

RECURSIVE Dfs2(_, _, _), Dfs2Neighbors(_, _, _, _)

\* st = [visited, component]
Dfs2Neighbors(edges, node, st, i) ==
    LET neighbors == ReverseAdjacency(edges, node) IN
    IF i > Len(neighbors) THEN st
    ELSE IF neighbors[i] \notin st.visited
         THEN Dfs2Neighbors(edges, node, Dfs2(edges, neighbors[i], st), i + 1)
         ELSE Dfs2Neighbors(edges, node, st, i + 1)

Dfs2(edges, node, st) ==
    Dfs2Neighbors(edges, node,
        [st EXCEPT !.visited = @ \cup {node}, !.component = Append(@, node)], 1)

\* a filter that also drops the components of two nodes
KeepComponentOverTwo(component) == Len(component) > 2

\* a component is kept when component.length > 1
KeepComponent(component) == Len(component) > 1

RECURSIVE SccPop(_, _, _, _)

\* the `while (stack.length > 0)` loop popping the finish stack
SccPop(edges, stack, visited, comps) ==
    IF stack = <<>> THEN comps
    ELSE LET node == stack[Len(stack)]
             rest == SubSeq(stack, 1, Len(stack) - 1)
         IN IF node \notin visited
            THEN LET r == Dfs2(edges, node, [visited |-> visited, component |-> <<>>])
                 IN SccPop(edges, rest, r.visited,
                        IF KeepComponent(r.component)
                        THEN Append(comps, r.component) ELSE comps)
            ELSE SccPop(edges, rest, visited, comps)

findStronglyConnectedComponents(g) ==
    SccPop(g.edges, FinishStack(g), {}, <<>>)

(***************************************************************************)
(* graphUtils.calculateCentrality.  The Map is a function on its keys.     *)
(***************************************************************************)
\* Map.prototype.set
MapSet(map, key, value) ==
    [k \in DOMAIN map \cup {key} |-> IF k = key THEN value ELSE map[k]]

\* map.get(key) || 0
MapGetOrZero(map, key) == IF key \in DOMAIN map THEN map[key] ELSE 0

\* a count of the edges leaving each node
calculateCentralityBySource(g) ==
    LET init == [id \in { g.nodes[i].id : i \in 1..Len(g.nodes) } |-> 0]
        F[j \in 0..Len(g.edges)] ==
            IF j = 0 THEN init
            ELSE LET map == F[j - 1] IN
                 MapSet(map, g.edges[j].source, MapGetOrZero(map, g.edges[j].source) + 1)
    IN F[Len(g.edges)]

calculateCentrality(g) ==
    LET init == [id \in { g.nodes[i].id : i \in 1..Len(g.nodes) } |-> 0]
        F[j \in 0..Len(g.edges)] ==
            IF j = 0 THEN init
            ELSE LET map == F[j - 1] IN
                 MapSet(map, g.edges[j].target, MapGetOrZero(map, g.edges[j].target) + 1)
    IN F[Len(g.edges)]

(***************************************************************************)
(* CircularDependencyDetector.analyze                                      *)
(***************************************************************************)
SeverityThreshold == 5

Severity(cycle) == IF Len(cycle) > SeverityThreshold THEN "error" ELSE "warning"

CircularAnalyze(g) ==
    IF Len(g.nodes) = 0 THEN <<>>
    ELSE LET cs == detectCycles(g) IN
         [i \in 1..Len(cs) |-> [cycle |-> cs[i], severity |-> Severity(cs[i])]]

(***************************************************************************)
(* DependencyGraphBuilder.analyze.  Ids, names and references are token    *)
(* sequences; "->" is the two-character arrow of the edge key.             *)
(***************************************************************************)
\* a module whose id field is missing
Undefined == <<"(undefined)">>

\* `${x}` in a template literal
TemplateString(x) == IF x = Undefined THEN <<"undefined">> ELSE x

\* `${module.id}->${depModule.id}`
EdgeKey(sourceId, targetId) ==
    TemplateString(sourceId) \o <<"->">> \o TemplateString(targetId)

\* String.prototype.includes for a token sequence and a token
Includes(s, tok) == \E i \in 1..Len(s) : s[i] = tok

\* modules.map(m => ({ id, name, size, type }))
BuildNodes(ms) ==
    [i \in 1..Len(ms) |->
        [id |-> ms[i].id, name |-> ms[i].name, size |-> ms[i].size,
         type |-> IF Includes(ms[i].name, "node_modules") THEN "package" ELSE "module"]]

\* modules.find(m => m.name === depName || m.id === depName): index, 0 when none
FindModule(ms, depName) ==
    LET hit(i) == ms[i].name = depName \/ (ms[i].id # Undefined /\ ms[i].id = depName) IN
    IF \E i \in 1..Len(ms) : hit(i)
    THEN CHOOSE i \in 1..Len(ms) : hit(i) /\ \A j \in 1..(i - 1) : ~hit(j)
    ELSE 0

RECURSIVE BuildEdges(_, _, _, _)

\* the two nested loops over modules (mi) and their dependencies (di);
\* acc = [edges, edgeSet]
BuildEdges(ms, mi, di, acc) ==
    IF mi > Len(ms) THEN acc.edges
    ELSE IF di > Len(ms[mi].dependencies) THEN BuildEdges(ms, mi + 1, 1, acc)
    ELSE LET dep == FindModule(ms, ms[mi].dependencies[di]) IN
         IF dep = 0 THEN BuildEdges(ms, mi, di + 1, acc)
         ELSE LET edgeKey == EdgeKey(ms[mi].id, ms[dep].id) IN
              IF edgeKey \in acc.edgeSet THEN BuildEdges(ms, mi, di + 1, acc)
              ELSE BuildEdges(ms, mi, di + 1,
                       [edges |-> Append(acc.edges,
                            [source |-> ms[mi].id, target |-> ms[dep].id, type |-> "direct"]),
                        edgeSet |-> acc.edgeSet \cup {edgeKey}])

GraphBuilderAnalyze(ms) ==
    IF Len(ms) = 0 THEN [nodes |-> <<>>, edges |-> <<>>]
    ELSE [nodes |-> BuildNodes(ms),
          edges |-> BuildEdges(ms, 1, 1, [edges |-> <<>>, edgeSet |-> {}])]

(***************************************************************************)
(* DuplicateDetector.  A module name is a sequence of tokens: "/", "@",    *)
(* the literal "node_modules", a run of digits and dots, or a word that    *)
(* holds none of these.                                                    *)
(***************************************************************************)
VersionTokens == {"1.0", "2.0"}

\* [\d.] : the token is made of digits and dots only
IsDigitsAndDots(tok) == tok \in VersionTokens

\* the longest run of tokens other than "/" that starts at position i
SegmentEnd(s, i) ==
    LET F[k \in (i - 1)..Len(s)] ==
            IF k = Len(s) THEN k
            ELSE IF s[k + 1] = "/" THEN k ELSE F[k + 1]
    IN F[i - 1]

\* the positions where /node_modules\/(@?[^/]+(?:\/[^/]+)?)/ can match
MarkerMatches(s) ==
    { i \in 1..Len(s) :
        /\ s[i] = "node_modules"
        /\ i + 2 <= Len(s)
        /\ s[i + 1] = "/"
        /\ s[i + 2] # "/" }

\* capture group 1 for a match at i: one segment, and greedily "/" and the next
\* segment when that one is not empty
MarkerGroup(s, i) ==
    LET e1 == SegmentEnd(s, i + 2)
        e2 == IF e1 + 2 <= Len(s) /\ s[e1 + 1] = "/" /\ s[e1 + 2] # "/"
              THEN SegmentEnd(s, e1 + 2) ELSE e1
    IN SubSeq(s, i + 2, e2)

\* moduleName.split('/')[0]
FirstPart(s) == SubSeq(s, 1, SegmentEnd(s, 1))

extractPackageName(moduleName) ==
    IF MarkerMatches(moduleName) # {}
    THEN MarkerGroup(moduleName,
             CHOOSE i \in MarkerMatches(moduleName) : \A j \in MarkerMatches(moduleName) : i <= j)
    ELSE IF FirstPart(moduleName) # <<>> THEN FirstPart(moduleName) ELSE moduleName

\* the positions where /@([\d.]+)/ can match
VersionMatches(s) ==
    { i \in 1..Len(s) : s[i] = "@" /\ i + 1 <= Len(s) /\ IsDigitsAndDots(s[i + 1]) }

\* the longest run of digit-and-dot tokens that starts at position i
DigitsEnd(s, i) ==
    LET F[k \in (i - 1)..Len(s)] ==
            IF k = Len(s) THEN k
            ELSE IF ~IsDigitsAndDots(s[k + 1]) THEN k ELSE F[k + 1]
    IN F[i - 1]

extractVersion(moduleName) ==
    IF VersionMatches(moduleName) # {}
    THEN LET i == CHOOSE i \in VersionMatches(moduleName) :
                      \A j \in VersionMatches(moduleName) : i <= j
         IN SubSeq(moduleName, i + 1, DigitsEnd(moduleName, i + 1))
    ELSE <<"unknown">>

\* the first loop: Map of package name -> modules, in insertion order
GroupModules(ms) ==
    LET F[i \in 0..Len(ms)] ==
            IF i = 0 THEN <<>>
            ELSE LET pkgName == extractPackageName(ms[i].name)
                     prev == F[i - 1]
                     at == { k \in 1..Len(prev) : prev[k].name = pkgName }
                 IN IF at = {}
                    THEN Append(prev, [name |-> pkgName, group |-> <<ms[i]>>])
                    ELSE [k \in 1..Len(prev) |->
                            IF k \in at
                            THEN [prev[k] EXCEPT !.group = Append(@, ms[i])]
                            ELSE prev[k]]
    IN F[Len(ms)]

\* Array.from(new Set(xs)): first occurrences, in order
Distinct(xs) ==
    LET F[i \in 0..Len(xs)] ==
            IF i = 0 THEN <<>>
            ELSE LET seen == F[i - 1] IN
                 IF xs[i] \in Range(seen) THEN seen ELSE Append(seen, xs[i])
    IN F[Len(xs)]

\* m.path || m.name
Location(m) == IF m.path # Undefined /\ m.path # <<>> THEN m.path ELSE m.name

RECURSIVE SumSizes(_)
SumSizes(group) == IF group = <<>> THEN 0 ELSE Head(group).size + SumSizes(Tail(group))

\* if (group.length > 1)
IsDuplicateGroup(group) == Len(group) > 1

DuplicateEntry(g) ==
    [name |-> g.name,
     versions |-> Distinct([i \in 1..Len(g.group) |-> extractVersion(g.group[i].name)]),
     locations |-> [i \in 1..Len(g.group) |-> Location(g.group[i])],
     totalSize |-> SumSizes(g.group)]

\* a stable sort by ascending totalSize
RECURSIVE SortBySizeAsc(_)
SortBySizeAsc(ds) ==
    IF ds = <<>> THEN <<>>
    ELSE LET rest == SortBySizeAsc(Tail(ds))
             d == Head(ds)
             k == Cardinality({ i \in 1..Len(rest) : rest[i].totalSize < d.totalSize })
         IN SubSeq(rest, 1, k) \o <<d>> \o SubSeq(rest, k + 1, Len(rest))

\* duplicates.sort((a, b) => b.totalSize - a.totalSize), a stable sort
RECURSIVE SortBySizeDesc(_)
SortBySizeDesc(ds) ==
    IF ds = <<>> THEN <<>>
    ELSE LET rest == SortBySizeDesc(Tail(ds))
             d == Head(ds)
             k == Cardinality({ i \in 1..Len(rest) : rest[i].totalSize > d.totalSize })
         IN SubSeq(rest, 1, k) \o <<d>> \o SubSeq(rest, k + 1, Len(rest))

DuplicateDetectorAnalyze(ms) ==
    IF Len(ms) = 0 THEN <<>>
    ELSE LET groups == GroupModules(ms)
             F[i \in 0..Len(groups)] ==
                 IF i = 0 THEN <<>>
                 ELSE IF IsDuplicateGroup(groups[i].group)
                      THEN Append(F[i - 1], DuplicateEntry(groups[i]))
                      ELSE F[i - 1]
         IN SortBySizeDesc(F[Len(groups)])

(***************************************************************************)
(* DependencyTreeBuilder.  A tree is a record; `DependencyTree | null` is  *)
(* a sequence holding the tree, or nothing.                                *)
(***************************************************************************)
MaxDepth == 20

\* nodes.find(n => n.id === nodeId): index, 0 when none
FindNode(nodes, nodeId) ==
    IF \E i \in 1..Len(nodes) : nodes[i].id = nodeId
    THEN CHOOSE i \in 1..Len(nodes) :
             nodes[i].id = nodeId /\ \A j \in 1..(i - 1) : nodes[j].id # nodeId
    ELSE 0

TreeNode(node, children, depth) ==
    [name |-> node.name, id |-> node.id, size |-> node.size,
     children |-> children, depth |-> depth]

\* a builder whose recursive calls all work on the caller's visited set:
\* yields [tree, visited]
RECURSIVE BuildTreeShared(_, _, _, _, _), BuildChildrenShared(_, _, _, _, _, _, _)

BuildChildrenShared(childIds, i, nodes, edges, visited, depth, children) ==
    IF i > Len(childIds) THEN [children |-> children, visited |-> visited]
    ELSE LET r == BuildTreeShared(childIds[i], nodes, edges, visited, depth + 1)
         IN BuildChildrenShared(childIds, i + 1, nodes, edges, r.visited, depth,
                children \o r.tree)

BuildTreeShared(nodeId, nodes, edges, visited, depth) ==
    IF depth > MaxDepth \/ nodeId \in visited \/ FindNode(nodes, nodeId) = 0
    THEN [tree |-> <<>>, visited |-> visited]
    ELSE LET r == BuildChildrenShared(Adjacency(edges, nodeId), 1, nodes, edges,
                      visited \cup {nodeId}, depth, <<>>)
         IN [tree |-> <<TreeNode(nodes[FindNode(nodes, nodeId)], r.children, depth)>>,
             visited |-> r.visited]

BuildTreeSharedVisited(nodeId, nodes, edges, visited, depth) ==
    BuildTreeShared(nodeId, nodes, edges, visited, depth).tree

RECURSIVE BuildTree(_, _, _, _, _), BuildChildren(_, _, _, _, _, _),
          BuildChildrenSameDepth(_, _, _, _, _, _)

\* a child loop that hands its own depth on to the children
BuildChildrenSameDepth(childIds, i, nodes, edges, visited, depth) ==
    IF i > Len(childIds) THEN <<>>
    ELSE BuildTree(childIds[i], nodes, edges, visited, depth)
             \o BuildChildrenSameDepth(childIds, i + 1, nodes, edges, visited, depth)

\* the `for (const childId of childIds)` loop, from index i on; every child
\* gets new Set(visited)
BuildChildren(childIds, i, nodes, edges, visited, depth) ==
    IF i > Len(childIds) THEN <<>>
    ELSE BuildTree(childIds[i], nodes, edges, visited, depth + 1)
             \o BuildChildren(childIds, i + 1, nodes, edges, visited, depth)

BuildTree(nodeId, nodes, edges, visited, depth) ==
    IF depth > MaxDepth \/ nodeId \in visited THEN <<>>
    ELSE IF FindNode(nodes, nodeId) = 0 THEN <<>>
    ELSE <<TreeNode(nodes[FindNode(nodes, nodeId)],
                    BuildChildren(Adjacency(edges, nodeId), 1, nodes, edges,
                        visited \cup {nodeId}, depth),
                    depth)>>

\* root selection without the fallback to the first node
TreeRootsNoFallback(g) ==
    LET hasIncomingEdge == { g.edges[j].target : j \in 1..Len(g.edges) }
    IN SelectSeq(g.nodes, LAMBDA n : n.id \notin hasIncomingEdge)

\* nodes.filter(n => !hasIncomingEdge.has(n.id)), or [nodes[0]] when empty
TreeRoots(g) ==
    LET hasIncomingEdge == { g.edges[j].target : j \in 1..Len(g.edges) }
        roots == SelectSeq(g.nodes, LAMBDA n : n.id \notin hasIncomingEdge)
    IN IF Len(roots) = 0 /\ Len(g.nodes) > 0 THEN <<g.nodes[1]>> ELSE roots

\* the loop over the roots; the one visited set is handed to every root call
\* and keeps the roots built so far
TreeBuilderAnalyze(g) ==
    IF Len(g.nodes) = 0 THEN <<>>
    ELSE LET roots == TreeRoots(g)
             F[i \in 0..Len(roots)] ==
                 IF i = 0 THEN [trees |-> <<>>, visited |-> {}]
                 ELSE LET prev == F[i - 1]
                          tree == BuildTree(roots[i].id, g.nodes, g.edges, prev.visited, 0)
                      IN [trees |-> prev.trees \o tree,
                          visited |-> IF tree = <<>> THEN prev.visited
                                      ELSE prev.visited \cup {roots[i].id}]
         IN F[Len(roots)].trees

(***************************************************************************)
(* VersionChecker.  A directory entry of node_modules has a name (a token  *)
(* sequence), may be a directory, may hold a package.json with or without  *)
(* a version, and may hold packages of its own in a nested node_modules.   *)
(***************************************************************************)
\* packageVersions after one more package: Map<string, Set<string>>, both in
\* insertion order
AddVersion(packageVersions, name, version) ==
    IF \E k \in 1..Len(packageVersions) : packageVersions[k].name = name
    THEN [k \in 1..Len(packageVersions) |->
            IF packageVersions[k].name = name /\ version \notin Range(packageVersions[k].versions)
            THEN [packageVersions[k] EXCEPT !.versions = Append(@, version)]
            ELSE packageVersions[k]]
    ELSE Append(packageVersions, [name |-> name, versions |-> <<version>>])

\* entry.name.startsWith('.')
StartsWithDot(name) == Len(name) > 0 /\ name[1] = "."

\* only the entries of <projectPath>/node_modules itself are read
scanNodeModules(inst) ==
    IF ~inst.nodeModules THEN <<>>
    ELSE LET F[i \in 0..Len(inst.entries)] ==
                 IF i = 0 THEN <<>>
                 ELSE LET packageVersions == F[i - 1]
                          entry == inst.entries[i]
                      IN IF /\ entry.isDirectory
                            /\ ~StartsWithDot(entry.name)
                            /\ entry.hasPackageJson
                            /\ entry.version # Null
                         THEN AddVersion(packageVersions, entry.name, entry.version.value)
                         ELSE packageVersions
         IN F[Len(inst.entries)]

VersionCheckerAnalyze(inst) ==
    IF ~inst.packageJson THEN <<>>
    ELSE LET packageVersions == scanNodeModules(inst)
             several == SelectSeq(packageVersions, LAMBDA e : Len(e.versions) > 1)
         IN [k \in 1..Len(several) |->
                [package |-> several[k].name,
                 versions |-> [j \in 1..Len(several[k].versions) |->
                                  [version |-> several[k].versions[j], requiredBy |-> <<>>]],
                 recommended |-> several[k].versions[1]]]

(***************************************************************************)
(* Graphs handed directly to the graph utilities: node ids "1".."n" in     *)
(* list order, any sequence of edges between them (repeats included).      *)
(***************************************************************************)
NodeOf(i) == [id |-> ToString(i), name |-> ToString(i), size |-> i, type |-> "module"]

EdgeOf(s, t) == [source |-> s, target |-> t, type |-> "direct"]

NodeIds(n) == { ToString(i) : i \in 1..n }

EdgesOn(n) == { EdgeOf(s, t) : s \in NodeIds(n), t \in NodeIds(n) }

GraphOf(n, es) == [nodes |-> [i \in 1..n |-> NodeOf(i)], edges |-> es]

\* a cache manager that is not used: disabled, nothing stored
NoCache ==
    /\ enabled = FALSE
    /\ defaultTTL = 0
    /\ memoryCache = <<>>
    /\ disk = <<>>
    /\ file = [exists |-> FALSE]
    /\ now = 0
    /\ ops = 0
    /\ lastGet = Null
    /\ stored = <<>>
    /\ invalidated = {}
    /\ everSet = {}

\* no ConfigManager is in use
NoConfig ==
    /\ configFile = [kind |-> "none"]
    /\ config = Null
    /\ lastLoad = Null

\* no ProgressManager is in use
NoProgress ==
    /\ progress = [phase |-> "", current |-> 0, total |-> 0]
    /\ lastProgress = Null

\* withProgress is not in use
NoWithProgress ==
    /\ wpItems = <<>>
    /\ wpFailing = {}
    /\ wpConcurrency = 0
    /\ wpQueue = <<>>
    /\ wpWorkers = <<>>
    /\ wpResults = <<>>
    /\ wpCompleted = 0
    /\ wpProgress = [phase |-> "", current |-> 0, total |-> 0]
    /\ wpReturned = Null
    /\ wpStarted = <<>>

\* retryOnError is not in use
NoRetry ==
    /\ maxRetries = 0
    /\ hasOnRetry = FALSE
    /\ attempt = 0
    /\ lastError = "(undefined)"
    /\ retryState = "idle"
    /\ retryOutcome = Null
    /\ fnCalls = <<>>
    /\ onRetryCalls = <<>>

\* the ErrorHandler singleton as constructed
NoHandler ==
    /\ recoveryStrategies = <<>>
    /\ errorLog = <<>>
    /\ lastHandle = Null

\* an Analyzer as constructed, with no analysis run yet
NoAnalyzer ==
    /\ analyzeAt = "idle"
    /\ abortController = Null
    /\ analyzeOptions = [bundle |-> TRUE, dependency |-> TRUE, code |-> TRUE]
    /\ parsedModules = FALSE
    /\ startedPhases = <<>>
    /\ cancelledAt = Null

\* a WatchManager as constructed
NoWatch ==
    /\ watcher = "new"
    /\ debounceTimer = Null
    /\ isAnalyzing = FALSE
    /\ analysesRunning = 0
    /\ watchedChanges = 0
    /\ analysesStarted = 0
    /\ unanalysed = FALSE

NoService ==
    /\ NoConfig /\ NoProgress /\ NoWithProgress /\ NoRetry /\ NoHandler /\ NoAnalyzer
    /\ NoWatch

\* nothing has been computed yet
NoAnalysis ==
    /\ cycles = <<>>
    /\ circular = <<>>
    /\ components = <<>>
    /\ sorted = Null
    /\ moduleGroups = <<>>
    /\ duplicates = <<>>
    /\ trees = <<>>
    /\ centrality = <<>>
    /\ conflicts = <<>>
    /\ installation = [packageJson |-> FALSE, nodeModules |-> FALSE, entries |-> <<>>]
    /\ calls = <<>>

NoResults == NoAnalysis /\ NoCache /\ NoService

(***************************************************************************)
(* Actions on a graph.                                                     *)
(***************************************************************************)
RunDetectCycles ==
    /\ pc = "graph"
    /\ cycles' = detectCycles(graph)
    /\ circular' = CircularAnalyze(graph)
    /\ pc' = "cycles"
    /\ UNCHANGED <<modules, graph, components, sorted, otherResults, centrality,
                 versionVars, calls, cacheVars, serviceVars>>

RunFindSCC ==
    /\ pc = "cycles"
    /\ components' = findStronglyConnectedComponents(graph)
    /\ pc' = "components"
    /\ UNCHANGED <<modules, graph, cycles, circular, sorted, otherResults, centrality,
                 versionVars, calls, cacheVars, serviceVars>>

RunTopologicalSort ==
    /\ pc = "components"
    /\ sorted' = topologicalSort(graph)
    /\ pc' = "sorted"
    /\ UNCHANGED <<modules, graph, cycles, circular, components, otherResults, centrality,
                 versionVars, calls, cacheVars, serviceVars>>

InitGraph ==
    /\ modules = <<>>
    /\ \E n \in 0..MaxNodes, k \in 0..MaxEdges :
           \E es \in [1..k -> EdgesOn(n)] : graph = GraphOf(n, es)
    /\ pc = "graph"
    /\ NoResults

NextGraph == RunDetectCycles \/ RunFindSCC \/ RunTopologicalSort

SpecGraph == InitGraph /\ [][NextGraph]_vars

(***************************************************************************)
(* A dependency run: a module list from the parsers, the graph built from  *)
(* it, then the graph analyses.                                            *)
(***************************************************************************)
IdTokens == {"a", "->"}

\* every id string of at most MaxIdLen tokens, and the missing id
IdPool == UNION { [1..k -> IdTokens] : k \in 1..MaxIdLen } \cup {Undefined}

NamePool == { <<"a">>, <<"n">> }

\* what a dependency entry may name: an id or a name of the list, or a
\* module that is not part of the build
RefPool(ids, names) ==
    ({ ids[i] : i \in 1..Len(ids) } \ {Undefined})
        \cup { names[i] : i \in 1..Len(names) } \cup { <<"external">> }

ModuleOf(id, name, size, deps) ==
    [id |-> id, name |-> name, size |-> size, dependencies |-> deps, path |-> Undefined]

Build ==
    /\ pc = "input"
    /\ graph' = GraphBuilderAnalyze(modules)
    /\ pc' = "graph"
    /\ UNCHANGED <<modules, graphResults, otherResults, centrality,
                 versionVars, calls, cacheVars, serviceVars>>

RECURSIVE TotalRefs(_)
TotalRefs(deps) == IF deps = <<>> THEN 0 ELSE Len(Head(deps)) + TotalRefs(Tail(deps))

\* module lists of at most MaxModules modules holding at most MaxRefs
\* dependency entries in all; ids may repeat or be missing
InitDep ==
    /\ \E n \in 0..MaxModules :
         \E ids \in [1..n -> IdPool], names \in [1..n -> NamePool] :
         \E deps \in [1..n -> UNION { [1..k -> RefPool(ids, names)] : k \in 0..MaxRefs }] :
           /\ TotalRefs(deps) <= MaxRefs
           /\ modules = [i \in 1..n |-> ModuleOf(ids[i], names[i], i, deps[i])]
    /\ graph = [nodes |-> <<>>, edges |-> <<>>]
    /\ pc = "input"
    /\ NoResults

NextDep == Build \/ RunDetectCycles \/ RunFindSCC \/ RunTopologicalSort

SpecDep == InitDep /\ [][NextDep]_vars

(***************************************************************************)
(* A duplicate-detection run over modules whose names are distinct paths.  *)
(***************************************************************************)
\* <prefix>node_modules/<package><rest>
OuterPrefixes == { <<>>, <<"node_modules", "/", "outer", "/">> }

PackageDirs ==
    { <<"lodash">>, <<"@", "scope", "/", "lodash">> }
        \cup { <<"lodash", "@", v>> : v \in VersionTokens }

Rests == { <<>>, <<"/", "a.js">>, <<"/", "b.js">>, <<"/", "lib", "/", "a.js">> }

PackagePath(prefix, dir, rest) == prefix \o <<"node_modules", "/">> \o dir \o rest

NamePaths ==
    { PackagePath(p, d, r) : p \in OuterPrefixes, d \in PackageDirs, r \in Rests }
        \cup { <<"src", "/", "a.js">>, <<"src", "/", "b.js">>, <<"a.js">> }

Sizes == {1, 2}

RunDuplicateDetector ==
    /\ pc = "input"
    /\ moduleGroups' = (IF Len(modules) = 0 THEN <<>> ELSE GroupModules(modules))
    /\ duplicates' = DuplicateDetectorAnalyze(modules)
    /\ pc' = "duplicates"
    /\ UNCHANGED <<modules, graph, graphResults, trees, centrality,
                 versionVars, calls, cacheVars, serviceVars>>

InitDup ==
    /\ \E n \in 0..MaxDupModules :
         \E names \in [1..n -> NamePaths], sizes \in [1..n -> Sizes], withPath \in BOOLEAN :
           /\ \A i, j \in 1..n : i # j => names[i] # names[j]
           /\ modules = [i \in 1..n |->
                        [id |-> <<ToString(i)>>, name |-> names[i], size |-> sizes[i],
                         dependencies |-> <<>>,
                         path |-> IF withPath THEN <<"/", "abs", "/">> \o names[i]
                                  ELSE Undefined]]
    /\ graph = [nodes |-> <<>>, edges |-> <<>>]
    /\ pc = "input"
    /\ NoResults

NextDup == RunDuplicateDetector

SpecDup == InitDup /\ [][NextDup]_vars

(***************************************************************************)
(* A tree-building run over a dependency graph: unique node ids, at most   *)
(* one edge per (source, target) pair; and over chains 1 -> 2 -> ... -> n. *)
(***************************************************************************)
ChainGraph(n) ==
    GraphOf(n, [i \in 1..(n - 1) |-> EdgeOf(ToString(i), ToString(i + 1))])

RunTreeBuilder ==
    /\ pc = "graph"
    /\ trees' = TreeBuilderAnalyze(graph)
    /\ pc' = "trees"
    /\ UNCHANGED <<modules, graph, graphResults, moduleGroups, duplicates, centrality,
                 versionVars, calls, cacheVars, serviceVars>>

RunCalculateCentrality ==
    /\ pc = "graph"
    /\ centrality' = calculateCentrality(graph)
    /\ pc' = "centrality"
    /\ UNCHANGED <<modules, graph, graphResults, otherResults,
                 versionVars, calls, cacheVars, serviceVars>>

InitTree ==
    /\ modules = <<>>
    /\ \/ \E n \in 0..MaxNodes, k \in 0..MaxEdges :
             \E es \in [1..k -> EdgesOn(n)] :
                /\ \A i, j \in 1..k : i # j => es[i] # es[j]
                /\ graph = GraphOf(n, es)
       \/ \E n \in (MaxNodes + 1)..MaxChain : graph = ChainGraph(n)
    /\ pc = "graph"
    /\ NoResults

NextTree == RunTreeBuilder \/ RunCalculateCentrality

SpecTree == InitTree /\ [][NextTree]_vars

(***************************************************************************)
(* Graph theory the claims are stated in, independent of the algorithms.   *)
(***************************************************************************)
Ids(g) == { g.nodes[i].id : i \in 1..Len(g.nodes) }

Successors(g, S) == { g.edges[j].target : j \in { k \in 1..Len(g.edges) : g.edges[k].source \in S } }

RECURSIVE Closure(_, _)
Closure(g, S) ==
    LET T == S \cup Successors(g, S) IN IF T = S THEN S ELSE Closure(g, T)

\* the nodes reachable from a along one edge or more
ReachFrom(g, a) == Closure(g, Successors(g, {a}))

Acyclic(g) == \A a \in Ids(g) : a \notin ReachFrom(g, a)

MutuallyReachable(g, a, b) == a = b \/ (b \in ReachFrom(g, a) /\ a \in ReachFrom(g, b))

\* the strongly connected component of a
SccOf(g, a) == { b \in Ids(g) : MutuallyReachable(g, a, b) }

HasEdge(g, s, t) == \E j \in 1..Len(g.edges) : g.edges[j].source = s /\ g.edges[j].target = t

NoRepeat(s) == \A i, j \in 1..Len(s) : i # j => s[i] # s[j]

\* s lists every node id exactly once and every edge goes forward in it
IsTopologicalOrder(g, s) ==
    /\ Len(s) = Len(g.nodes)
    /\ Range(s) = Ids(g)
    /\ NoRepeat(s)
    /\ \A j \in 1..Len(g.edges) :
           IndexOf(s, g.edges[j].source) < IndexOf(s, g.edges[j].target)

(***************************************************************************)
(* C1: topologicalSort returns a sequence holding every node id exactly    *)
(* once with every edge's source before its target exactly when the graph  *)
(* is acyclic (a self-loop is a cycle), and null for every cyclic graph.   *)
(***************************************************************************)
TopologicalSortContract ==
    pc = "sorted" =>
        /\ Acyclic(graph) => (sorted # Null /\ IsTopologicalOrder(graph, sorted.value))
        /\ ~Acyclic(graph) => sorted = Null

\* an acyclic graph whose order is not the node-list order
TopologicalSortWitness ==
    /\ pc = "sorted"
    /\ sorted # Null
    /\ Len(graph.edges) >= 2
    /\ sorted.value # [i \in 1..Len(graph.nodes) |-> graph.nodes[i].id]

ValidModuleList(ms) ==
    /\ \A i \in 1..Len(ms) : ms[i].id # Undefined
    /\ \A i, j \in 1..Len(ms) : i # j => ms[i].id # ms[j].id

\* reference r names module m
Matches(m, r) == m.name = r \/ m.id = r

(***************************************************************************)
(* C2: findStronglyConnectedComponents and detectCycles agree on every     *)
(* graph the builder produces: each reported component holds a reported    *)
(* cycle, and no component reported means no cycle reported.               *)
(***************************************************************************)
SccAgreesWithCycles ==
    (pc \in {"components", "sorted"} /\ ValidModuleList(modules)) =>
        /\ \A i \in 1..Len(components) :
              \E j \in 1..Len(cycles) : Range(cycles[j]) \subseteq Range(components[i])
        /\ components = <<>> => cycles = <<>>

(***************************************************************************)
(* C4: the edge list of DependencyGraphBuilder.analyze, for a module list  *)
(* with unique ids: (a) endpoints are node ids, (b) no (source,target)     *)
(* pair twice, (c) every edge comes from a matching reference, (d) every   *)
(* reference that matches a module yields an edge to a matching module,    *)
(* (e) a reference matching nothing yields no edge.                        *)
(***************************************************************************)
BuilderEdgesContract ==
    (pc # "input" /\ ValidModuleList(modules)) =>
        /\ \A j \in 1..Len(graph.edges) :
              graph.edges[j].source \in Ids(graph) /\ graph.edges[j].target \in Ids(graph)
        /\ \A j, k \in 1..Len(graph.edges) :
              (j # k) => ~(graph.edges[j].source = graph.edges[k].source
                           /\ graph.edges[j].target = graph.edges[k].target)
        /\ \A j \in 1..Len(graph.edges) :
              \E i, k \in 1..Len(modules) :
                /\ modules[i].id = graph.edges[j].source
                /\ modules[k].id = graph.edges[j].target
                /\ \E d \in 1..Len(modules[i].dependencies) :
                       Matches(modules[k], modules[i].dependencies[d])
        /\ \A i \in 1..Len(modules) : \A d \in 1..Len(modules[i].dependencies) :
              (\E k \in 1..Len(modules) : Matches(modules[k], modules[i].dependencies[d]))
              => \E k \in 1..Len(modules) :
                    /\ Matches(modules[k], modules[i].dependencies[d])
                    /\ HasEdge(graph, modules[i].id, modules[k].id)

(***************************************************************************)
(* C5: a module list with a missing or a repeated id is rejected before    *)
(* any graph is built and before any analyzer runs.                        *)
(***************************************************************************)
InvalidInputRejected ==
    ~ValidModuleList(modules) => pc = "input"

(***************************************************************************)
(* C6: every cycle detectCycles / CircularDependencyDetector.analyze       *)
(* returns is a closed walk through at least 2 distinct nodes: first and   *)
(* last element equal, consecutive elements joined by an edge, the         *)
(* elements before the closing one pairwise distinct and at least 2.       *)
(***************************************************************************)
IsCycleOfTwoOrMore(g, c) ==
    /\ Len(c) >= 3
    /\ c[1] = c[Len(c)]
    /\ \A i \in 1..(Len(c) - 1) : HasEdge(g, c[i], c[i + 1])
    /\ NoRepeat(SubSeq(c, 1, Len(c) - 1))

CyclesAreClosedWalks ==
    (pc \in {"cycles", "components", "sorted"} /\ ValidModuleList(modules)) =>
        /\ \A j \in 1..Len(cycles) : IsCycleOfTwoOrMore(graph, cycles[j])
        /\ \A j \in 1..Len(circular) : IsCycleOfTwoOrMore(graph, circular[j].cycle)

(***************************************************************************)
(* C7: DuplicateDetector.analyze reports a package group exactly when its  *)
(* modules carry more than one distinct extracted version; every reported  *)
(* entry lists at least 2 versions and its totalSize is the sum of the     *)
(* sizes of the group's modules.                                           *)
(***************************************************************************)
VersionsOf(group) == { extractVersion(group[i].name) : i \in 1..Len(group) }

ReportedOnlyForSeveralVersions ==
    pc = "duplicates" =>
        /\ \A k \in 1..Len(moduleGroups) :
              (\E d \in 1..Len(duplicates) : duplicates[d].name = moduleGroups[k].name)
              <=> Cardinality(VersionsOf(moduleGroups[k].group)) > 1
        /\ \A d \in 1..Len(duplicates) :
              /\ Len(duplicates[d].versions) >= 2
              /\ \E k \in 1..Len(moduleGroups) :
                    /\ moduleGroups[k].name = duplicates[d].name
                    /\ duplicates[d].totalSize = SumSizes(moduleGroups[k].group)

(***************************************************************************)
(* C8: two copies of one package in directories <name>@<v1> and            *)
(* <name>@<v2> under the marker, v1 # v2, give exactly one entry, named    *)
(* <name>, with versions {v1, v2} and totalSize the sum of both sizes.     *)
(***************************************************************************)
TwoVersionedCopies(ms) ==
    /\ Len(ms) = 2
    /\ \E v1, v2 \in VersionTokens, r1, r2 \in Rests \ {<<>>} :
          /\ v1 # v2
          /\ ms[1].name = PackagePath(<<>>, <<"lodash", "@", v1>>, r1)
          /\ ms[2].name = PackagePath(<<>>, <<"lodash", "@", v2>>, r2)

TwoVersionsOneDuplicate ==
    (pc = "duplicates" /\ TwoVersionedCopies(modules)) =>
        /\ Len(duplicates) = 1
        /\ duplicates[1].name = <<"lodash">>
        /\ Range(duplicates[1].versions)
              = { extractVersion(modules[1].name), extractVersion(modules[2].name) }
        /\ Len(duplicates[1].versions) = 2
        /\ duplicates[1].totalSize = modules[1].size + modules[2].size

(***************************************************************************)
(* C9: the grouping key of a module is the package name after the LAST     *)
(* dependency-directory marker of its path: one segment, or the two        *)
(* segments @scope/name of a scoped package.                               *)
(***************************************************************************)
\* the positions of "node_modules/" in s
Markers(s) == { i \in 1..(Len(s) - 1) : s[i] = "node_modules" /\ s[i + 1] = "/" }

\* the package identity the path names
PackageIdentity(s) ==
    LET last == CHOOSE i \in Markers(s) : \A j \in Markers(s) : j <= i
        e1 == SegmentEnd(s, last + 2)
    IN IF last + 2 <= Len(s) /\ s[last + 2] = "@" /\ e1 + 2 <= Len(s)
       THEN SubSeq(s, last + 2, SegmentEnd(s, e1 + 2))
       ELSE SubSeq(s, last + 2, e1)

GroupKeyIsPackageIdentity ==
    pc = "duplicates" =>
        \A k \in 1..Len(moduleGroups) : \A i \in 1..Len(moduleGroups[k].group) :
            Markers(moduleGroups[k].group[i].name) # {}
            => moduleGroups[k].name = PackageIdentity(moduleGroups[k].group[i].name)

(***************************************************************************)
(* C10: every returned tree has exactly one TreeNode for each simple path  *)
(* of at most 20 edges that starts at its root, and no other TreeNode.     *)
(***************************************************************************)
\* the root-to-node id path of every TreeNode of the tree, one entry per TreeNode
RECURSIVE TreePaths(_, _), ForestPaths(_, _)
TreePaths(tree, prefix) ==
    <<Append(prefix, tree.id)>> \o ForestPaths(tree.children, Append(prefix, tree.id))

ForestPaths(children, prefix) ==
    IF children = <<>> THEN <<>>
    ELSE TreePaths(Head(children), prefix) \o ForestPaths(Tail(children), prefix)

\* the simple paths of g that start at root and have at most maxEdges edges
RECURSIVE SimplePathsFrom(_, _, _)
SimplePathsFrom(g, paths, maxEdges) ==
    IF maxEdges = 0 \/ paths = {} THEN paths
    ELSE paths \cup SimplePathsFrom(g,
             UNION { { Append(q, x) :
                         x \in { y \in Ids(g) : HasEdge(g, q[Len(q)], y) /\ y \notin Range(q) } } :
                     q \in paths },
             maxEdges - 1)

TreeIsSimplePaths ==
    pc = "trees" =>
        /\ Len(trees) = Len(TreeRoots(graph))
        /\ \A k \in 1..Len(trees) :
            LET ps == TreePaths(trees[k], <<>>) IN
            /\ trees[k].id = TreeRoots(graph)[k].id
            /\ NoRepeat(ps)
            /\ Range(ps) = SimplePathsFrom(graph, { <<trees[k].id>> }, MaxDepth)

\* a node reached by two paths appears twice in the tree of its root
TreeWitness ==
    /\ pc = "trees"
    /\ Len(trees) = 1
    /\ \E i, j \in 1..Len(TreePaths(trees[1], <<>>)) :
          LET ps == TreePaths(trees[1], <<>>) IN
          i # j /\ ps[i][Len(ps[i])] = ps[j][Len(ps[j])]

\* the depth cut: a chain longer than the tree it yields
TreeDepthWitness ==
    /\ pc = "trees"
    /\ Len(trees) = 1
    /\ Len(TreePaths(trees[1], <<>>)) = MaxDepth + 1
    /\ Len(graph.nodes) > MaxDepth + 1

(***************************************************************************)
(* C11: DependencyTreeBuilder.analyze terminates on every finite graph,    *)
(* no TreeNode has a depth greater than 20, and each TreeNode's depth      *)
(* field is the number of edges between it and the root of its tree.       *)
(***************************************************************************)
\* for every TreeNode: its depth field and the level it sits on
RECURSIVE TreeDepths(_, _), ForestDepths(_, _)
TreeDepths(tree, level) ==
    <<[depth |-> tree.depth, level |-> level]>> \o ForestDepths(tree.children, level + 1)

ForestDepths(children, level) ==
    IF children = <<>> THEN <<>>
    ELSE TreeDepths(Head(children), level) \o ForestDepths(Tail(children), level)

TreeDepthBounded ==
    pc = "trees" =>
        \A k \in 1..Len(trees) :
            LET ds == TreeDepths(trees[k], 0) IN
            \A i \in 1..Len(ds) : ds[i].depth = ds[i].level /\ ds[i].depth <= MaxDepth

(***************************************************************************)
(* C12: one tree per node without incoming edge, in node-list order, each  *)
(* rooted at that node; exactly one tree rooted at the first node when     *)
(* the graph is not empty and every node has an incoming edge; no tree     *)
(* for the empty graph.                                                    *)
(***************************************************************************)
\* the indices of the nodes no edge enters
SourceNodes(g) == { i \in 1..Len(g.nodes) : \A s \in Ids(g) : ~HasEdge(g, s, g.nodes[i].id) }

RingNext(n, i) == (i % n) + 1

RingEdge(n, i) == EdgeOf(ToString(i), ToString(RingNext(n, i)))

InitRing ==
    /\ modules = <<>>
    /\ \E n \in 2..MaxRing :
         \E order \in [1..n -> 1..n], first \in 1..n :
            /\ \A i, j \in 1..n : i # j => order[i] # order[j]
            /\ graph = [nodes |-> [i \in 1..n |-> NodeOf(order[i])],
                        edges |-> [i \in 1..n |-> RingEdge(n, ((first + i - 2) % n) + 1)]]
    /\ pc = "graph"
    /\ NoResults

SpecRing == InitRing /\ [][NextGraph]_vars

\* the graph is one ring through all of its nodes
IsRing(g) ==
    LET n == Len(g.nodes) IN
    /\ n >= 2
    /\ Ids(g) = NodeIds(n)
    /\ Len(g.edges) = n
    /\ \A i \in 1..n : HasEdge(g, ToString(i), ToString(RingNext(n, i)))

(***************************************************************************)
(* C13: a reported cycle has severity 'error' exactly when the number of   *)
(* distinct NodeIds on it exceeds 5: a cycle through 5 modules is a        *)
(* warning, one through 6 modules an error.                                *)
(***************************************************************************)
SeverityByModuleCount ==
    \A k \in 1..Len(circular) :
        circular[k].severity =
            (IF Cardinality(Range(circular[k].cycle)) > SeverityThreshold
             THEN "error" ELSE "warning")

(***************************************************************************)
(* C14: on a ring of n >= 2 modules, in any node-list order, detectCycles  *)
(* returns exactly one cycle that lists all n nodes in dependency order    *)
(* and closes on its first node; the SCC finder returns exactly one        *)
(* component holding all n nodes; topologicalSort returns null.            *)
(***************************************************************************)
IsRingCycle(g, c) ==
    LET n == Len(g.nodes) IN
    /\ Len(c) = n + 1
    /\ c[n + 1] = c[1]
    /\ { c[i] : i \in 1..n } = Ids(g)
    /\ \A i \in 1..n : \E j \in 1..n : c[i] = ToString(j) /\ c[i + 1] = ToString(RingNext(n, j))

RingScenario ==
    IsRing(graph) =>
        /\ pc \in {"cycles", "components", "sorted"} =>
              Len(cycles) = 1 /\ IsRingCycle(graph, cycles[1])
        /\ pc \in {"components", "sorted"} =>
              /\ Len(components) = 1
              /\ Len(components[1]) = Len(graph.nodes)
              /\ Range(components[1]) = Ids(graph)
        /\ pc = "sorted" => sorted = Null

\* a ring whose node list does not follow the ring
RingWitness ==
    /\ pc = "sorted"
    /\ IsRing(graph)
    /\ Len(graph.nodes) = 4
    /\ graph.nodes[1].id = "3" /\ graph.nodes[2].id = "1"
    /\ graph.edges[1].source = "2"
    /\ Len(cycles) = 1 /\ Len(components) = 1 /\ sorted = Null

(***************************************************************************)
(* C18: calculateCentrality returns a map with an entry for every node,    *)
(* whose value is the number of edges targeting the node; in a chain       *)
(* A1 -> A2 -> ... -> An, A1 scores 0 and every other node scores 1.       *)
(***************************************************************************)
IsChain(g) == Len(g.nodes) >= 2 /\ g = ChainGraph(Len(g.nodes))

CentralityIsInDegree ==
    pc = "centrality" =>
        /\ DOMAIN centrality = Ids(graph)
        /\ \A id \in Ids(graph) :
              centrality[id] =
                  Cardinality({ j \in 1..Len(graph.edges) : graph.edges[j].target = id })
        /\ IsChain(graph) =>
              \A i \in 1..Len(graph.nodes) :
                  centrality[graph.nodes[i].id] = (IF i = 1 THEN 0 ELSE 1)

\* a chain longer than the small graphs, scored
CentralityWitness ==
    /\ pc = "centrality"
    /\ IsChain(graph)
    /\ Len(graph.nodes) > MaxNodes
    /\ centrality["1"] = 0
    /\ centrality["2"] = 1

(***************************************************************************)
(* A version check of a project directory.  The names of the entries of    *)
(* one directory are distinct.                                             *)
(***************************************************************************)
EntryNames == { <<"lodash">>, <<"foo">>, <<".", "bin">> }

NestedPackages ==
    { [name |-> n, version |-> v] : n \in { <<"lodash">>, <<"foo">> }, v \in VersionTokens }

FileEntry(name) ==
    [name |-> name, isDirectory |-> FALSE, hasPackageJson |-> FALSE, version |-> Null,
     nested |-> <<>>]

DirectoryEntries(name) ==
    { [name |-> name, isDirectory |-> TRUE, hasPackageJson |-> h, version |-> v, nested |-> ns] :
        h \in BOOLEAN, v \in {Null} \cup { Some(x) : x \in VersionTokens },
        ns \in UNION { [1..k -> NestedPackages] : k \in 0..MaxNested } }

Entries(name) ==
    {FileEntry(name)} \cup { e \in DirectoryEntries(name) : e.version # Null => e.hasPackageJson }

RunVersionChecker ==
    /\ pc = "installed"
    /\ conflicts' = VersionCheckerAnalyze(installation)
    /\ pc' = "conflicts"
    /\ UNCHANGED <<modules, graph, graphResults, otherResults, centrality,
                 installation, calls, cacheVars, serviceVars>>

InitVersion ==
    /\ modules = <<>>
    /\ graph = [nodes |-> <<>>, edges |-> <<>>]
    /\ cycles = <<>> /\ circular = <<>> /\ components = <<>> /\ sorted = Null
    /\ moduleGroups = <<>> /\ duplicates = <<>> /\ trees = <<>>
    /\ centrality = <<>>
    /\ conflicts = <<>>
    /\ calls = <<>>
    /\ NoCache
    /\ NoService
    /\ \E packageJson \in BOOLEAN, nodeModules \in BOOLEAN, n \in 0..MaxEntries :
         \E names \in [1..n -> EntryNames] :
            /\ ~nodeModules => n = 0
            /\ \A i, j \in 1..n : i # j => names[i] # names[j]
            /\ \E entries \in [1..n -> UNION { Entries(x) : x \in EntryNames }] :
                  /\ \A i \in 1..n : entries[i].name = names[i]
                  /\ \A i \in 1..n : \A k \in 1..Len(entries[i].nested) :
                        entries[i].nested[k].name # names[i]
                  /\ installation = [packageJson |-> packageJson, nodeModules |-> nodeModules,
                                     entries |-> entries]
    /\ pc = "installed"

NextVersion == RunVersionChecker

SpecVersion == InitVersion /\ [][NextVersion]_vars

(***************************************************************************)
(* C15: VersionChecker.analyze returns one VersionConflict for every       *)
(* package installed at two or more distinct declared versions, listing    *)
(* each version once with recommended the first one, and nothing for a     *)
(* package with a single version; an installation holding a package at     *)
(* two versions yields a non-empty result.                                 *)
(***************************************************************************)
\* the versions the installed package.json files declare for a package
DeclaredVersions(inst, name) ==
    { e.version.value : e \in { x \in Range(inst.entries) :
          x.isDirectory /\ x.name = name /\ x.version # Null } }
      \cup UNION { { p.version : p \in { q \in Range(e.nested) : q.name = name } } :
                     e \in { x \in Range(inst.entries) : x.isDirectory } }

ConflictPerPackage ==
    (pc = "conflicts" /\ installation.packageJson) =>
        \A name \in { <<"lodash">>, <<"foo">> } :
            LET declared == DeclaredVersions(installation, name)
                reported == { k \in 1..Len(conflicts) : conflicts[k].package = name }
            IN IF Cardinality(declared) >= 2
               THEN /\ Cardinality(reported) = 1
                    /\ \A k \in reported :
                          /\ { conflicts[k].versions[j].version :
                                  j \in 1..Len(conflicts[k].versions) } = declared
                          /\ Len(conflicts[k].versions) = Cardinality(declared)
                          /\ conflicts[k].recommended = conflicts[k].versions[1].version
               ELSE reported = {}

(***************************************************************************)
(* A reporting run: up to MaxOrderModules modules with distinct names, two *)
(* scoped packages of two files each and a first-party file, then either   *)
(* the graph builder or the duplicate detector.                            *)
(***************************************************************************)
OrderNames ==
    { PackagePath(<<>>, <<"@", "scope", "/", d>>, <<"/", f>>) :
        d \in {"lodash", "foo"}, f \in {"a.js", "b.js"} }
        \cup { <<"src", "/", "a.js">> }

DependencyPatterns == {"none", "ring", "fan"}

\* the dependency entries of module i of n: none; the name of the next
\* module; or the ids of the last, the first and again the last module
OrderDependencies(pattern, names, i) ==
    LET n == Len(names) IN
    IF pattern = "ring" THEN <<names[(i % n) + 1]>>
    ELSE IF pattern = "fan" THEN << <<ToString(n)>>, <<"1">>, <<ToString(n)>> >>
    ELSE <<>>

InitOrder ==
    /\ \E n \in 0..MaxOrderModules :
         \E names \in [1..n -> OrderNames], sizes \in [1..n -> Sizes],
            pattern \in DependencyPatterns :
           /\ \A i, j \in 1..n : i # j => names[i] # names[j]
           /\ modules = [i \in 1..n |->
                        [id |-> <<ToString(i)>>, name |-> names[i], size |-> sizes[i],
                         dependencies |-> OrderDependencies(pattern, names, i),
                         path |-> Undefined]]
    /\ graph = [nodes |-> <<>>, edges |-> <<>>]
    /\ pc = "input"
    /\ NoResults

NextOrder == Build \/ RunDuplicateDetector

SpecOrder == InitOrder /\ [][NextOrder]_vars

(***************************************************************************)
(* C17: reports list their items in insertion order: the builder returns   *)
(* nodes in module-list order and edges in the order their (source,        *)
(* target) pair first occurs in the scan; DuplicateDetector returns the    *)
(* groups in the order their package identity first occurs in the module   *)
(* list, and each group's locations in module-list order.                  *)
(***************************************************************************)
\* the (source, target) pairs of the resolved dependency entries, in the
\* order of the modules and of their entries
ScanPairs(ms) ==
    LET resolved(i) ==
            SelectSeq([j \in 1..Len(ms[i].dependencies) |->
                          [source |-> ms[i].id,
                           target |-> FindModule(ms, ms[i].dependencies[j])]],
                      LAMBDA r : r.target # 0)
        pairsOf(i) == [j \in 1..Len(resolved(i)) |->
                          <<resolved(i)[j].source, ms[resolved(i)[j].target].id>>]
        F[i \in 0..Len(ms)] == IF i = 0 THEN <<>> ELSE F[i - 1] \o pairsOf(i)
    IN F[Len(ms)]

BuilderInInsertionOrder ==
    pc = "graph" =>
        LET scan == ScanPairs(modules)
            pair(e) == <<graph.edges[e].source, graph.edges[e].target>>
        IN /\ Len(graph.nodes) = Len(modules)
           /\ \A i \in 1..Len(modules) : graph.nodes[i].id = modules[i].id
           /\ Range(scan) = { pair(e) : e \in 1..Len(graph.edges) }
           /\ \A e1, e2 \in 1..Len(graph.edges) :
                 e1 < e2 => IndexOf(scan, pair(e1)) < IndexOf(scan, pair(e2))

\* where the package identity first occurs in the module list
FirstOccurrence(ms, pkgName) ==
    CHOOSE i \in 1..Len(ms) :
        /\ extractPackageName(ms[i].name) = pkgName
        /\ \A j \in 1..(i - 1) : extractPackageName(ms[j].name) # pkgName

LocationsInModuleOrder ==
    pc = "duplicates" =>
        \A k \in 1..Len(duplicates) :
            LET members == SelectSeq(modules,
                               LAMBDA m : extractPackageName(m.name) = duplicates[k].name)
            IN duplicates[k].locations = [i \in 1..Len(members) |-> members[i].name]

GroupsInInsertionOrder ==
    pc = "duplicates" =>
        \A k1, k2 \in 1..Len(duplicates) :
            k1 < k2 => FirstOccurrence(modules, duplicates[k1].name)
                          < FirstOccurrence(modules, duplicates[k2].name)

ReportsInInsertionOrder ==
    BuilderInInsertionOrder /\ LocationsInModuleOrder /\ GroupsInInsertionOrder

\* as amended: the groups come by descending totalSize, and in insertion
\* order among groups of equal totalSize
GroupsBySizeThenInsertion ==
    pc = "duplicates" =>
        \A k1, k2 \in 1..Len(duplicates) :
            k1 < k2 =>
                \/ duplicates[k1].totalSize > duplicates[k2].totalSize
                \/ /\ duplicates[k1].totalSize = duplicates[k2].totalSize
                   /\ FirstOccurrence(modules, duplicates[k1].name)
                         < FirstOccurrence(modules, duplicates[k2].name)

ReportsInStatedOrder ==
    BuilderInInsertionOrder /\ LocationsInModuleOrder /\ GroupsBySizeThenInsertion

\* the sort moved a later, larger group to the front
SortedGroupsWitness ==
    /\ pc = "duplicates"
    /\ Len(duplicates) = 2
    /\ duplicates[1].totalSize > duplicates[2].totalSize
    /\ FirstOccurrence(modules, duplicates[1].name)
          > FirstOccurrence(modules, duplicates[2].name)

(***************************************************************************)
(* Repeated and interleaved calls: the algorithms are called in any order, *)
(* any number of times (at most MaxCalls in all), on one module list and   *)
(* the graph built from it.                                                *)
(***************************************************************************)
RerunNames ==
    { PackagePath(<<>>, <<"@", "scope", "/", "lodash">>, <<"/", f>>) : f \in {"a.js", "b.js"} }
        \cup { <<"src", "/", "a.js">> }

\* one more call on the same model
Call(name) ==
    /\ pc = "rerun"
    /\ Len(calls) < MaxCalls
    /\ calls' = Append(calls, name)
    /\ UNCHANGED <<modules, pc, versionVars, cacheVars, serviceVars>>

CallGraphBuilder ==
    /\ Call("DependencyGraphBuilder")
    /\ graph' = GraphBuilderAnalyze(modules)
    /\ UNCHANGED <<graphResults, otherResults, centrality>>

CallDetectCycles ==
    /\ Call("detectCycles")
    /\ cycles' = detectCycles(graph)
    /\ UNCHANGED <<graph, circular, components, sorted, otherResults, centrality>>

CallFindSCC ==
    /\ Call("findStronglyConnectedComponents")
    /\ components' = findStronglyConnectedComponents(graph)
    /\ UNCHANGED <<graph, cycles, circular, sorted, otherResults, centrality>>

\* a sort that consumes the edge list it is given
CallTopologicalSortInPlace ==
    /\ Call("topologicalSort")
    /\ sorted' = topologicalSort(graph)
    /\ graph' = [graph EXCEPT !.edges = <<>>]
    /\ UNCHANGED <<cycles, circular, components, otherResults, centrality>>

CallTopologicalSort ==
    /\ Call("topologicalSort")
    /\ sorted' = topologicalSort(graph)
    /\ UNCHANGED <<graph, cycles, circular, components, otherResults, centrality>>

CallCalculateCentrality ==
    /\ Call("calculateCentrality")
    /\ centrality' = calculateCentrality(graph)
    /\ UNCHANGED <<graph, graphResults, otherResults>>

CallTreeBuilder ==
    /\ Call("DependencyTreeBuilder")
    /\ trees' = TreeBuilderAnalyze(graph)
    /\ UNCHANGED <<graph, graphResults, moduleGroups, duplicates, centrality>>

CallDuplicateDetector ==
    /\ Call("DuplicateDetector")
    /\ moduleGroups' = (IF Len(modules) = 0 THEN <<>> ELSE GroupModules(modules))
    /\ duplicates' = DuplicateDetectorAnalyze(modules)
    /\ UNCHANGED <<graph, graphResults, trees, centrality>>

InitRerun ==
    /\ \E n \in 0..MaxRerunModules :
         \E names \in [1..n -> RerunNames], pattern \in DependencyPatterns :
           /\ \A i, j \in 1..n : i # j => names[i] # names[j]
           /\ modules = [i \in 1..n |->
                        [id |-> <<ToString(i)>>, name |-> names[i], size |-> i,
                         dependencies |-> OrderDependencies(pattern, names, i),
                         path |-> Undefined]]
    /\ graph = GraphBuilderAnalyze(modules)
    /\ pc = "rerun"
    /\ NoResults

NextRerun ==
    \/ CallGraphBuilder
    \/ CallDetectCycles
    \/ CallFindSCC
    \/ CallTopologicalSort
    \/ CallCalculateCentrality
    \/ CallTreeBuilder
    \/ CallDuplicateDetector

SpecRerun == InitRerun /\ [][NextRerun]_vars

(***************************************************************************)
(* C16: no algorithm changes the module list, the node list or the edge    *)
(* list it is given, and none keeps state between calls: a call of an      *)
(* algorithm that was called before on the same model, whatever was        *)
(* called in between, yields the result it yielded before.                 *)
(***************************************************************************)
Called(name) == name \in Range(calls)

nonCacheVars == <<modules, graph, pc, graphResults, otherResults, centrality, versionVars, calls>>

JsNull == "(null)"

\* Map.prototype.delete
MapDelete(map, key) == [k \in DOMAIN map \ {key} |-> map[k]]

\* the characters /[^a-z0-9-_]/gi leaves alone, among those the keys use
SafeChars == {"a", "b", "c", "-", "_"}

\* key.replace(/[^a-z0-9-_]/gi, '-')
SafeKey(key) == [i \in 1..Len(key) |-> IF key[i] \in SafeChars THEN key[i] ELSE "-"]

getCachePath(key) == SafeKey(key) \o <<".json">>

\* JSON.parse(JSON.stringify(data)): NaN is written as null
JsonRoundTrip(data) == IF data = "NaN" THEN JsNull ELSE data

\* what readJsonFile returns for the file writeJsonFile wrote for the entry
JsonEntry(entry) == [entry EXCEPT !.data = JsonRoundTrip(@)]

getFileHash(f) == IF f.exists THEN <<f.mtime, f.size>> ELSE <<>>

isValid(entry) ==
    IF entry.ttl = 0 THEN TRUE
    ELSE now - entry.timestamp < entry.ttl

\* get(key, filePath?): the value returned and the two caches afterwards
get(key, withFile) ==
    LET cachePath == getCachePath(key)
        currentHash == getFileHash(file)
        miss == [result |-> JsNull, memory |-> memoryCache, disk |-> disk, stale |-> FALSE]
        deleted == [result |-> JsNull, memory |-> MapDelete(memoryCache, key),
                    disk |-> MapDelete(disk, cachePath), stale |-> FALSE]
    IN IF ~enabled THEN miss
       ELSE IF key \in DOMAIN memoryCache /\ isValid(memoryCache[key])
       THEN IF withFile /\ currentHash # memoryCache[key].hash
            THEN [miss EXCEPT !.memory = MapDelete(memoryCache, key), !.stale = TRUE]
            ELSE [miss EXCEPT !.result = memoryCache[key].data]
       ELSE IF cachePath \notin DOMAIN disk THEN miss
       ELSE LET entry == disk[cachePath] IN
            IF ~isValid(entry) THEN deleted
            ELSE IF withFile /\ currentHash # entry.hash THEN [deleted EXCEPT !.stale = TRUE]
            ELSE [miss EXCEPT !.result = entry.data,
                              !.memory = MapSet(memoryCache, key, entry)]

\* the entry set(key, data, filePath?, ttl?) builds
NewEntry(data, withFile, ttl) ==
    [data |-> data,
     hash |-> IF withFile THEN getFileHash(file) ELSE <<>>,
     timestamp |-> now,
     ttl |-> IF ttl # Null THEN ttl.value ELSE defaultTTL]

CacheKeys == { <<"a", ".", "b">>, <<"a", "-", "b">>, <<"c">> }

CacheData == {"v1", "NaN"}

TtlChoices == {Null, Some(0), Some(TtlShort)}

Get ==
    /\ ops < MaxOps
    /\ \E key \in CacheKeys, withFile \in BOOLEAN :
         LET r == get(key, withFile) IN
         /\ memoryCache' = r.memory
         /\ disk' = r.disk
         /\ lastGet' = Some([key |-> key, withFile |-> withFile, result |-> r.result])
         /\ invalidated' = IF r.stale /\ key \in DOMAIN stored /\ stored[key].entry.hash # <<>>
                           THEN invalidated \cup {key}
                           ELSE invalidated
    /\ ops' = ops + 1
    /\ UNCHANGED <<enabled, defaultTTL, file, now, stored, everSet, nonCacheVars, serviceVars>>

Set ==
    /\ ops < MaxOps
    /\ \E key \in CacheKeys, data \in CacheData, withFile \in BOOLEAN, ttl \in TtlChoices :
         LET entry == NewEntry(data, withFile, ttl) IN
         IF ~enabled
         THEN UNCHANGED <<memoryCache, disk, stored, invalidated, everSet>>
         ELSE /\ invalidated' = invalidated \ {key}
              /\ everSet' = everSet \cup {<<key, data>>}
              /\ memoryCache' = MapSet(memoryCache, key, entry)
              /\ disk' = MapSet(disk, getCachePath(key), JsonEntry(entry))
              /\ stored' = MapSet(stored, key, [entry |-> entry, withFile |-> withFile])
    /\ ops' = ops + 1
    /\ lastGet' = Null
    /\ UNCHANGED <<enabled, defaultTTL, file, now, nonCacheVars, serviceVars>>

Delete ==
    /\ ops < MaxOps
    /\ \E key \in CacheKeys :
         /\ memoryCache' = MapDelete(memoryCache, key)
         /\ disk' = MapDelete(disk, getCachePath(key))
         /\ stored' = MapDelete(stored, key)
    /\ ops' = ops + 1
    /\ lastGet' = Null
    /\ UNCHANGED <<enabled, defaultTTL, file, now, invalidated, everSet, nonCacheVars, serviceVars>>

Clear ==
    /\ ops < MaxOps
    /\ memoryCache' = <<>>
    /\ disk' = <<>>
    /\ stored' = <<>>
    /\ ops' = ops + 1
    /\ lastGet' = Null
    /\ UNCHANGED <<enabled, defaultTTL, file, now, invalidated, everSet, nonCacheVars, serviceVars>>

Cleanup ==
    /\ ops < MaxOps
    /\ disk' = [cachePath \in { q \in DOMAIN disk : isValid(disk[q]) } |-> disk[cachePath]]
    /\ ops' = ops + 1
    /\ lastGet' = Null
    /\ UNCHANGED <<enabled, defaultTTL, memoryCache, file, now, stored, invalidated, everSet,
                   nonCacheVars, serviceVars>>

\* a millisecond passes
Tick ==
    /\ now < MaxTime
    /\ now' = now + 1
    /\ lastGet' = Null
    /\ UNCHANGED <<enabled, defaultTTL, memoryCache, disk, file, ops, stored, invalidated,
                   everSet, nonCacheVars, serviceVars>>

\* the associated file is written or created: its mtime becomes the current time
WriteFile ==
    /\ \E size \in Sizes : file' = [exists |-> TRUE, mtime |-> now, size |-> size]
    /\ file' # file
    /\ lastGet' = Null
    /\ UNCHANGED <<enabled, defaultTTL, memoryCache, disk, now, ops, stored, invalidated,
                   everSet, nonCacheVars, serviceVars>>

\* a fresh CacheManager is constructed on the same cacheDir with the same options:
\* its memoryCache is a new empty Map, the files of cacheDir stay; the construction
\* counts as one of the MaxOps calls
Restart ==
    /\ ops < MaxOps
    /\ memoryCache # <<>>
    /\ memoryCache' = <<>>
    /\ ops' = ops + 1
    /\ lastGet' = Null
    /\ UNCHANGED <<enabled, defaultTTL, disk, file, now, stored, invalidated, everSet,
                   nonCacheVars, serviceVars>>

\* a manager constructed on an empty cacheDir; the associated file may not exist yet
InitCache ==
    /\ modules = <<>>
    /\ graph = [nodes |-> <<>>, edges |-> <<>>]
    /\ pc = "cache"
    /\ NoAnalysis
    /\ NoService
    /\ enabled \in BOOLEAN
    /\ defaultTTL \in {0, TtlShort}
    /\ memoryCache = <<>>
    /\ disk = <<>>
    /\ file \in { [exists |-> FALSE, mtime |-> 0, size |-> 0],
                   [exists |-> TRUE, mtime |-> 0, size |-> 1] }
    /\ now = 0
    /\ ops = 0
    /\ lastGet = Null
    /\ stored = <<>>
    /\ invalidated = {}
    /\ everSet = {}

NextCache ==
    Get \/ Set \/ Delete \/ Clear \/ Cleanup \/ Tick \/ WriteFile \/ Restart

SpecCache == InitCache /\ [][NextCache]_vars

\* the latest set(key) is still in force: not deleted, not cleared, not expired
Live(key) ==
    /\ key \in DOMAIN stored
    /\ stored[key].entry.ttl > 0 => now - stored[key].entry.timestamp < stored[key].entry.ttl

(***************************************************************************)
(* C19: on an enabled manager, get(key) without a filePath returns the     *)
(* data of the most recent set(key) when the key was not deleted and the   *)
(* cache not cleared since, and (for a ttl above 0) less than ttl          *)
(* milliseconds have passed; in every other case it returns null.          *)
(***************************************************************************)
GetReturnsLatestSet ==
    (enabled /\ lastGet # Null /\ ~lastGet.value.withFile) =>
        lastGet.value.result =
            (IF Live(lastGet.value.key)
             THEN stored[lastGet.value.key].entry.data
             ELSE JsNull)

(***************************************************************************)
(* C20: when set(key, data, filePath) recorded a file and the file's       *)
(* mtime or size differs at get(key, filePath), get returns null; when     *)
(* the file is unchanged and the entry is unexpired and not deleted, get   *)
(* returns the data.                                                       *)
(***************************************************************************)
GetChecksFile ==
    LET key == lastGet.value.key IN
    (/\ lastGet # Null /\ lastGet.value.withFile
     /\ key \in DOMAIN stored /\ stored[key].withFile
     /\ stored[key].entry.hash # <<>> /\ file.exists) =>
        IF getFileHash(file) # stored[key].entry.hash
        THEN lastGet.value.result = JsNull
        ELSE Live(key) => lastGet.value.result = stored[key].entry.data

(***************************************************************************)
(* C29: once get(key, filePath) has returned null because the file         *)
(* recorded by set(key, data, filePath) changed, every later get(key),     *)
(* with or without filePath and also from a fresh manager on the same      *)
(* cacheDir, returns null until the next set(key).                         *)
(***************************************************************************)
StaleEntryStaysGone ==
    (enabled /\ lastGet # Null /\ lastGet.value.key \in invalidated) =>
        lastGet.value.result = JsNull

(***************************************************************************)
(* C30: get(k) returns null or data some set stored under k itself, and a  *)
(* key whose latest set is in force, holds JSON-safe data and was not      *)
(* invalidated is never turned into a miss by what happened to other keys. *)
(***************************************************************************)
KeysIsolated ==
    LET key == lastGet.value.key
        result == lastGet.value.result
    IN lastGet # Null =>
         /\ \/ result = JsNull
            \/ \E pair \in everSet :
                 pair[1] = key /\ result \in {pair[2], JsonRoundTrip(pair[2])}
         /\ (/\ enabled /\ ~lastGet.value.withFile /\ Live(key)
             /\ key \notin invalidated
             /\ JsonRoundTrip(stored[key].entry.data) # JsNull) => result # JsNull

(***************************************************************************)
(* ConfigManager (config): load, getConfig, reset.                         *)
(***************************************************************************)

\* everything a ConfigManager action leaves alone
besideConfig == <<nonCacheVars, cacheVars, progressVars, withProgressVars, retryVars,
    handlerVars, analyzerVars, watchVars>>

\* a field the configuration object does not have
JsUndefined == "(undefined)"

\* !value of a string-valued field
Falsy(value) == value = JsUndefined \/ value = ""

Bundlers == {"webpack", "rollup", "vite", "auto"}

validFormats == {"cli", "html", "json"}

\* getDefaultConfig(): the fields validateConfig reads
getDefaultConfig == [path |-> "cwd", bundler |-> "auto", output |-> Some(<<"cli">>)]

\* validateConfig(config): the ConfigError it throws, or Null when it returns
validateConfig(cfg) ==
    IF Falsy(cfg.path) THEN Some("ConfigError")
    ELSE IF ~Falsy(cfg.bundler) /\ cfg.bundler \notin Bundlers THEN Some("ConfigError")
    ELSE IF cfg.output # Null
            /\ \E i \in 1..Len(cfg.output.value) : cfg.output.value[i] \notin validFormats
         THEN Some("ConfigError")
    ELSE Null

\* findConfigFile(cwd) followed by loadConfigFile(configPath): the configuration
\* read, or the ConfigError of a file that cannot be loaded
loadConfigFile ==
    IF configFile.kind = "none" THEN Some(getDefaultConfig)
    ELSE IF configFile.kind = "broken" THEN Null
    ELSE Some(configFile.config)

\* load(cwd)
Load ==
    /\ pc = "config"
    /\ IF config # Null
       THEN /\ lastLoad' = Some([rejected |-> FALSE, value |-> config.value])
            /\ UNCHANGED config
       ELSE IF loadConfigFile = Null
       THEN /\ lastLoad' = Some([rejected |-> TRUE, error |-> "ConfigError"])
            /\ UNCHANGED config
       ELSE /\ config' = loadConfigFile
            /\ lastLoad' =
                 IF validateConfig(loadConfigFile.value) # Null
                 THEN Some([rejected |-> TRUE,
                            error |-> validateConfig(loadConfigFile.value).value])
                 ELSE Some([rejected |-> FALSE, value |-> loadConfigFile.value])
    /\ UNCHANGED <<configFile, besideConfig>>

\* reset()
Reset ==
    /\ pc = "config"
    /\ config # Null
    /\ config' = Null
    /\ lastLoad' = Null
    /\ UNCHANGED <<configFile, besideConfig>>

ConfigPaths == {JsUndefined, "", "./dist"}

ConfigBundlers == {JsUndefined, "webpack", "auto", "invalid-bundler"}

ConfigOutputs ==
    {Null, Some(<<>>), Some(<<"cli">>), Some(<<"cli", "html", "json">>),
     Some(<<"invalid-format">>), Some(<<"cli", "invalid-format">>)}

ConfigFiles ==
    {[kind |-> "none"], [kind |-> "broken"]} \cup
    { [kind |-> "file", config |-> [path |-> p, bundler |-> b, output |-> o]] :
        p \in ConfigPaths, b \in ConfigBundlers, o \in ConfigOutputs }

\* the configuration file of the working directory is written, replaced or removed
WriteConfigFile ==
    /\ pc = "config"
    /\ configFile' \in ConfigFiles
    /\ configFile' # configFile
    /\ lastLoad' = Null
    /\ UNCHANGED <<config, besideConfig>>

InitConfig ==
    /\ modules = <<>>
    /\ graph = [nodes |-> <<>>, edges |-> <<>>]
    /\ pc = "config"
    /\ NoAnalysis
    /\ NoCache
    /\ NoWatch
    /\ NoAnalyzer
    /\ NoHandler
    /\ NoProgress
    /\ NoWithProgress
    /\ NoRetry
    /\ configFile \in ConfigFiles
    /\ config = Null
    /\ lastLoad = Null

NextConfig == Load \/ Reset \/ WriteConfigFile

SpecConfig == InitConfig /\ [][NextConfig]_vars

(***************************************************************************)
(* C21: load rejects with ConfigError whenever the configuration it        *)
(* resolves is invalid, on every call; an invalid configuration is never   *)
(* returned by load and never becomes the value of getConfig().            *)
(***************************************************************************)
InvalidConfigRejected ==
    /\ config # Null => validateConfig(config.value) = Null
    /\ (lastLoad # Null /\ ~lastLoad.value.rejected) =>
           validateConfig(lastLoad.value.value) = Null

(***************************************************************************)
(* ProgressManager (progress): start, update, increment, complete,         *)
(* getInfo.  A manager is the record of its fields phase, current, total.  *)
(***************************************************************************)

besideProgress == <<nonCacheVars, cacheVars, configVars, withProgressVars, retryVars,
    handlerVars, analyzerVars, watchVars>>

MaxTotal == 5

Min(a, b) == IF a < b THEN a ELSE b

\* start(phase, total)
start(phase, total) == [phase |-> phase, current |-> 0, total |-> total]

\* update(current)
update(p, current) == [p EXCEPT !.current = current]

\* increment(message, amount)
increment(p, amount) == [p EXCEPT !.current = Min(p.current + amount, p.total)]

\* complete()
complete(p) == [p EXCEPT !.current = p.total]

\* getInfo(); percent is kept to its whole part
getInfo(p) ==
    [phase |-> p.phase,
     percent |-> IF p.total > 0 THEN (p.current * 100) \div p.total ELSE 0,
     current |-> p.current,
     total |-> p.total]

Phases == {"bundle", "code"}

Start ==
    /\ pc = "progress"
    /\ \E phase \in Phases, total \in 0..MaxTotal : progress' = start(phase, total)
    /\ lastProgress' = Some("start")
    /\ UNCHANGED besideProgress

Update ==
    /\ pc = "progress"
    /\ \E current \in 0..(MaxTotal + 1) : progress' = update(progress, current)
    /\ lastProgress' = Some("update")
    /\ UNCHANGED besideProgress

Increment ==
    /\ pc = "progress"
    /\ \E amount \in {1, 2} : progress' = increment(progress, amount)
    /\ lastProgress' = Some("increment")
    /\ UNCHANGED besideProgress

Complete ==
    /\ pc = "progress"
    /\ progress' = complete(progress)
    /\ lastProgress' = Some("complete")
    /\ UNCHANGED besideProgress

\* new ProgressManager(): phase = '', current = 0, total = 0
InitProgress ==
    /\ modules = <<>>
    /\ graph = [nodes |-> <<>>, edges |-> <<>>]
    /\ pc = "progress"
    /\ NoAnalysis
    /\ NoCache
    /\ NoWatch
    /\ NoAnalyzer
    /\ NoHandler
    /\ NoConfig
    /\ NoWithProgress
    /\ NoRetry
    /\ progress = [phase |-> "", current |-> 0, total |-> 0]
    /\ lastProgress = Null

NextProgress == Start \/ Update \/ Increment \/ Complete

SpecProgress == InitProgress /\ [][NextProgress]_vars

(***************************************************************************)
(* C26: after any sequence of start, update, increment and complete,       *)
(* getInfo().current lies between 0 and getInfo().total and                *)
(* getInfo().percent between 0 and 100; after complete() on a phase with   *)
(* total > 0, percent is 100.                                              *)
(***************************************************************************)
ProgressInRange ==
    LET info == getInfo(progress) IN
    /\ 0 <= info.current /\ info.current <= info.total
    /\ 0 <= info.percent /\ info.percent <= 100
    /\ (lastProgress = Some("complete") /\ info.total > 0) => info.percent = 100

(***************************************************************************)
(* withProgress (progress): a pool of workers that share one queue.  Each  *)
(* worker awaits one processor call at a time; a processor call settles    *)
(* at any moment, in any order.                                            *)
(***************************************************************************)

besideWithProgress == <<nonCacheVars, cacheVars, configVars, progressVars, retryVars,
    handlerVars, analyzerVars, watchVars>>

MaxItems == 4

MaxConcurrency == 3

\* the processor of the unit tests: async (item) => item * 2
processor(item, index) == item * 2

\* results[index] = result on a JavaScript array: the array grows to index + 1 and
\* the positions never assigned stay empty
ArrayAssign(array, index, value) ==
    [i \in 1..(IF Len(array) > index THEN Len(array) ELSE index + 1) |->
        IF i = index + 1 THEN Some(value)
        ELSE IF i <= Len(array) THEN array[i]
        ELSE Null]

\* the mutated form of WorkerCount: one worker per item
WorkerCountPerItem(concurrency, length) == length

\* Math.min(concurrency, items.length)
WorkerCount(concurrency, length) == Min(concurrency, length)

Ended == [state |-> "ended"]

Awaiting(index) == [state |-> "awaiting", index |-> index]

\* the synchronous start of processNext by each worker in turn: [queue, workers]
StartWorkers(count, queueAtCall) ==
    LET F[k \in 0..count] ==
            IF k = 0 THEN [queue |-> queueAtCall, workers |-> <<>>]
            ELSE LET prev == F[k - 1] IN
                 IF prev.queue = <<>>
                 THEN [prev EXCEPT !.workers = Append(@, Ended)]
                 ELSE [queue |-> Tail(prev.queue),
                       workers |-> Append(prev.workers, Awaiting(Head(prev.queue)))]
    IN F[count]

\* the indexes the workers of ws are awaiting, in worker order
AwaitedBy(ws) ==
    LET awaiting == SelectSeq(ws, LAMBDA w : w.state = "awaiting")
    IN [k \in 1..Len(awaiting) |-> awaiting[k].index]

\* withProgress(items, processor, {concurrency, silent: true}) up to its first await
CallWithProgress ==
    /\ pc = "withProgress"
    /\ wpProgress.phase = ""
    /\ \E length \in 0..MaxItems, concurrency \in 1..MaxConcurrency :
       \E failures \in SUBSET (0..(length - 1)) :
         LET r == StartWorkers(WorkerCount(concurrency, length),
                               [i \in 1..length |-> i - 1])
         IN /\ wpItems' = [i \in 1..length |-> i]
            /\ wpFailing' = failures
            /\ wpConcurrency' = concurrency
            /\ wpProgress' = start("processing", length)
            /\ wpQueue' = r.queue
            /\ wpWorkers' = r.workers
            /\ wpStarted' = AwaitedBy(r.workers)
    /\ UNCHANGED <<wpResults, wpCompleted, wpReturned, besideWithProgress>>

\* the processor call a worker awaits settles, and processNext runs on to its next
\* await or to its end
Settle ==
    /\ pc = "withProgress"
    /\ \E w \in 1..Len(wpWorkers) :
         /\ wpWorkers[w].state = "awaiting"
         /\ LET index == wpWorkers[w].index IN
            IF index \in wpFailing
            THEN UNCHANGED <<wpResults, wpProgress>>
            ELSE /\ wpResults' = ArrayAssign(wpResults, index, processor(wpItems[index + 1], index))
                 /\ wpProgress' = update(wpProgress, wpCompleted + 1)
         /\ wpCompleted' = wpCompleted + 1
         /\ IF wpQueue = <<>>
            THEN /\ wpWorkers' = [wpWorkers EXCEPT ![w] = Ended]
                 /\ UNCHANGED <<wpQueue, wpStarted>>
            ELSE /\ wpWorkers' = [wpWorkers EXCEPT ![w] = Awaiting(Head(wpQueue))]
                 /\ wpQueue' = Tail(wpQueue)
                 /\ wpStarted' = Append(wpStarted, Head(wpQueue))
    /\ UNCHANGED <<wpItems, wpFailing, wpConcurrency, wpReturned, besideWithProgress>>

\* Promise.all(workers) is fulfilled: progress.complete() and return results
Return ==
    /\ pc = "withProgress"
    /\ wpProgress.phase # ""
    /\ wpReturned = Null
    /\ \A w \in 1..Len(wpWorkers) : wpWorkers[w] = Ended
    /\ wpProgress' = complete(wpProgress)
    /\ wpReturned' = Some(wpResults)
    /\ UNCHANGED <<wpItems, wpFailing, wpConcurrency, wpQueue, wpWorkers, wpResults,
                   wpCompleted, wpStarted, besideWithProgress>>

InitWithProgress ==
    /\ modules = <<>>
    /\ graph = [nodes |-> <<>>, edges |-> <<>>]
    /\ pc = "withProgress"
    /\ NoAnalysis
    /\ NoCache
    /\ NoWatch
    /\ NoAnalyzer
    /\ NoHandler
    /\ NoConfig
    /\ NoProgress
    /\ NoRetry
    /\ wpItems = <<>>
    /\ wpFailing = {}
    /\ wpConcurrency = 0
    /\ wpQueue = <<>>
    /\ wpWorkers = <<>>
    /\ wpResults = <<>>
    /\ wpCompleted = 0
    /\ wpProgress = [phase |-> "", current |-> 0, total |-> 0]
    /\ wpReturned = Null
    /\ wpStarted = <<>>

NextWithProgress == CallWithProgress \/ Settle \/ Return

SpecWithProgress == InitWithProgress /\ [][NextWithProgress]_vars

\* the results of the items the processor did not throw for, in input order
SuccessfulResults ==
    LET indexes == SelectSeq([i \in 1..Len(wpItems) |-> i - 1],
                             LAMBDA index : index \notin wpFailing)
    IN [k \in 1..Len(indexes) |-> Some(processor(wpItems[indexes[k] + 1], indexes[k]))]

(***************************************************************************)
(* C22: withProgress resolves with an array that holds exactly the results *)
(* of the items that succeeded, in input order: its length is the number   *)
(* of successful items and it has no entry for a failed item; with no      *)
(* failure it is [processor(items[0]), ..., processor(items[n-1])].        *)
(***************************************************************************)
ResultsAreTheSuccesses ==
    wpReturned # Null => wpReturned.value = SuccessfulResults

InFlight == { w \in 1..Len(wpWorkers) : wpWorkers[w].state = "awaiting" }

TimesStarted(index) == Cardinality({ k \in 1..Len(wpStarted) : wpStarted[k] = index })

(***************************************************************************)
(* C23: with concurrency c >= 1, under every interleaving of processor     *)
(* completions, at most c processor calls are in flight at any time, no    *)
(* item is passed to the processor twice, and the promise settles only     *)
(* after every item was passed exactly once and every call has settled.    *)
(***************************************************************************)
ConcurrencyRespected ==
    /\ Cardinality(InFlight) <= wpConcurrency
    /\ \A index \in 0..(Len(wpItems) - 1) : TimesStarted(index) <= 1
    /\ wpReturned # Null =>
         /\ InFlight = {}
         /\ \A index \in 0..(Len(wpItems) - 1) : TimesStarted(index) = 1
         /\ wpCompleted = Len(wpItems)

\* the pool is full after some calls settled, with items still queued behind it
FullPoolWitness ==
    /\ wpConcurrency >= 2
    /\ Cardinality(InFlight) = wpConcurrency
    /\ wpCompleted > 0
    /\ wpQueue # <<>>
    /\ wpFailing # {}

(***************************************************************************)
(* retryOnError (errors/handlers): the attempt loop.  fn settles as        *)
(* fulfilled or rejected at each call; the delay timer fires later.        *)
(***************************************************************************)

besideRetry == <<nonCacheVars, cacheVars, configVars, progressVars, withProgressVars,
    handlerVars, analyzerVars, watchVars>>

MaxAttempts == 4

\* what a call of fn settles with
FnResults ==
    {[ok |-> TRUE, value |-> "v1"], [ok |-> FALSE, error |-> "e1"],
     [ok |-> FALSE, error |-> "e2"]}

\* the mutated form of RetriesRemain: also true at the last attempt
RetriesRemainAtLast(n, limit) == n <= limit

\* attempt < maxRetries
RetriesRemain(n, limit) == n < limit

\* the head of `for (...; attempt <= maxRetries; ...)` reached with attempt = n:
\* fn is called, or the loop ends and lastError is thrown
LoopHead(n, limit, error) ==
    IF n <= limit
    THEN /\ retryState' = "calling"
         /\ UNCHANGED retryOutcome
    ELSE /\ retryState' = "rejected"
         /\ retryOutcome' = Some([rejected |-> TRUE, error |-> error])

\* retryOnError(fn, maxRetries, delay, onRetry) up to its first await
CallRetryOnError ==
    /\ pc = "retry"
    /\ retryState = "idle"
    /\ \E limit \in 0..MaxAttempts, callback \in BOOLEAN :
         /\ maxRetries' = limit
         /\ hasOnRetry' = callback
         /\ LoopHead(1, limit, lastError)
    /\ attempt' = 1
    /\ UNCHANGED <<lastError, fnCalls, onRetryCalls, besideRetry>>

\* the awaited call of fn settles
FnSettles ==
    /\ pc = "retry"
    /\ retryState = "calling"
    /\ \E r \in FnResults :
         /\ fnCalls' = Append(fnCalls, r)
         /\ IF r.ok
            THEN /\ retryState' = "resolved"
                 /\ retryOutcome' = Some([rejected |-> FALSE, value |-> r.value])
                 /\ UNCHANGED <<attempt, lastError, onRetryCalls>>
            ELSE /\ lastError' = r.error
                 /\ IF RetriesRemain(attempt, maxRetries)
                    THEN /\ onRetryCalls' = IF hasOnRetry
                                            THEN Append(onRetryCalls, <<attempt, r.error>>)
                                            ELSE onRetryCalls
                         /\ retryState' = "waiting"
                         /\ UNCHANGED <<attempt, retryOutcome>>
                    ELSE /\ attempt' = attempt + 1
                         /\ LoopHead(attempt + 1, maxRetries, r.error)
                         /\ UNCHANGED onRetryCalls
    /\ UNCHANGED <<maxRetries, hasOnRetry, besideRetry>>

\* the setTimeout(resolve, delay) timer fires
DelayElapses ==
    /\ pc = "retry"
    /\ retryState = "waiting"
    /\ attempt' = attempt + 1
    /\ LoopHead(attempt + 1, maxRetries, lastError)
    /\ UNCHANGED <<maxRetries, hasOnRetry, lastError, fnCalls, onRetryCalls, besideRetry>>

InitRetry ==
    /\ modules = <<>>
    /\ graph = [nodes |-> <<>>, edges |-> <<>>]
    /\ pc = "retry"
    /\ NoAnalysis
    /\ NoCache
    /\ NoWatch
    /\ NoAnalyzer
    /\ NoHandler
    /\ NoConfig
    /\ NoProgress
    /\ NoWithProgress
    /\ NoRetry

NextRetry == CallRetryOnError \/ FnSettles \/ DelayElapses

SpecRetry == InitRetry /\ [][NextRetry]_vars

\* the failed calls of fn that are followed by another attempt
FollowedFailures ==
    SelectSeq([k \in 1..Len(fnCalls) |-> [call |-> k, result |-> fnCalls[k]]],
              LAMBDA c : ~c.result.ok /\ c.call < maxRetries)

besideHandler == <<nonCacheVars, cacheVars, configVars, progressVars, withProgressVars,
                   retryVars, analyzerVars, watchVars>>

MaxLog == 2

\* Map.set(name, strategy): a name already in the map keeps its place
MapSetInOrder(entries, name, strategy) ==
    IF \E i \in 1..Len(entries) : entries[i].name = name
    THEN [i \in 1..Len(entries) |->
             IF entries[i].name = name THEN [name |-> name, strategy |-> strategy]
             ELSE entries[i]]
    ELSE Append(entries, [name |-> name, strategy |-> strategy])

\* the mutated form of TryStrategies: gives up at the first recover that throws
TryStrategiesUntilThrow(entries, error) ==
    LET F[i \in 0..Len(entries)] ==
            IF i = 0 THEN Null
            ELSE LET st == entries[Len(entries) - i + 1].strategy IN
                 IF error \in st.accepts
                 THEN IF st.recovers THEN Some(st.value) ELSE Null
                 ELSE F[i - 1]
    IN F[Len(entries)]

\* the loop `for (const [name, strategy] of this.recoveryStrategies)`: the value
\* returned from inside it, or Null when it runs to its end
TryStrategies(entries, error) ==
    LET F[i \in 0..Len(entries)] ==
            IF i = 0 THEN Null
            ELSE LET st == entries[Len(entries) - i + 1].strategy IN
                 IF error \in st.accepts /\ st.recovers THEN Some(st.value)
                 ELSE F[i - 1]
    IN F[Len(entries)]

\* throw: shouldThrow = true
shouldThrow(options) == IF options.throw = Null THEN TRUE ELSE options.throw.value

\* handle(error, options): the log afterwards and how the promise settles
handle(error, options) ==
    LET recovered == TryStrategies(recoveryStrategies, error) IN
    [log |-> Append(errorLog, error),
     outcome |-> IF recovered # Null THEN [rejected |-> FALSE, value |-> recovered.value]
                 ELSE IF shouldThrow(options) THEN [rejected |-> TRUE, error |-> error]
                 ELSE [rejected |-> FALSE, value |-> JsUndefined]]

StrategyNames == {"a", "b", "c"}

Errors == {"ParseError", "AnalysisError"}

Strategies(name) ==
    { [accepts |-> accepts, recovers |-> recovers, value |-> <<"recovered by", name>>] :
        accepts \in {{"ParseError"}, Errors}, recovers \in BOOLEAN }

RegisterRecoveryStrategy ==
    /\ pc = "handler"
    /\ \E name \in StrategyNames : \E strategy \in Strategies(name) :
         /\ recoveryStrategies' = MapSetInOrder(recoveryStrategies, name, strategy)
         /\ recoveryStrategies' # recoveryStrategies
    /\ lastHandle' = Null
    /\ UNCHANGED <<errorLog, besideHandler>>

\* handle calls are explored while the log holds fewer than MaxLog errors
Handle ==
    /\ pc = "handler"
    /\ Len(errorLog) < MaxLog
    /\ \E error \in Errors, throw \in {Null, Some(TRUE), Some(FALSE)} :
         LET r == handle(error, [throw |-> throw]) IN
         /\ errorLog' = r.log
         /\ lastHandle' = Some([error |-> error, throw |-> throw, logBefore |-> errorLog,
                                outcome |-> r.outcome])
    /\ UNCHANGED <<recoveryStrategies, besideHandler>>

ClearErrorLog ==
    /\ pc = "handler"
    /\ errorLog # <<>>
    /\ errorLog' = <<>>
    /\ lastHandle' = Null
    /\ UNCHANGED <<recoveryStrategies, besideHandler>>

InitHandler ==
    /\ modules = <<>>
    /\ graph = [nodes |-> <<>>, edges |-> <<>>]
    /\ pc = "handler"
    /\ NoAnalysis
    /\ NoCache
    /\ NoWatch
    /\ NoAnalyzer
    /\ NoConfig
    /\ NoProgress
    /\ NoWithProgress
    /\ NoRetry
    /\ NoHandler

NextHandler == RegisterRecoveryStrategy \/ Handle \/ ClearErrorLog

SpecHandler == InitHandler /\ [][NextHandler]_vars

\* the places in the map of the strategies that accept the error and recover from it
Recovering(error) ==
    { i \in 1..Len(recoveryStrategies) :
        /\ error \in recoveryStrategies[i].strategy.accepts
        /\ recoveryStrategies[i].strategy.recovers }

(***************************************************************************)
(* C25: every call of handle(error, options) appends exactly one entry for *)
(* that error to the error log, whatever the outcome; if some registered   *)
(* strategy accepts the error and its recover succeeds, handle resolves    *)
(* with the value of the first such strategy in the order of the map (the  *)
(* order in which the names were first registered), skipping strategies    *)
(* whose recover throws; otherwise it rejects with the same error when     *)
(* options.throw is true or omitted and resolves undefined when it is      *)
(* false.                                                                  *)
(***************************************************************************)
HandleContract ==
    lastHandle # Null =>
        LET call == lastHandle.value
            first == CHOOSE i \in Recovering(call.error) :
                         \A j \in Recovering(call.error) : i <= j
        IN /\ errorLog = call.logBefore \o <<call.error>>
           /\ call.outcome =
                IF Recovering(call.error) # {}
                THEN [rejected |-> FALSE, value |-> recoveryStrategies[first].strategy.value]
                ELSE IF call.throw = Some(FALSE)
                THEN [rejected |-> FALSE, value |-> JsUndefined]
                ELSE [rejected |-> TRUE, error |-> call.error]

\* the first strategy that accepts the error throws and two later ones recover
SkippedStrategyWitness ==
    /\ lastHandle # Null
    /\ Len(recoveryStrategies) = 3
    /\ lastHandle.value.error \in recoveryStrategies[1].strategy.accepts
    /\ ~recoveryStrategies[1].strategy.recovers
    /\ Recovering(lastHandle.value.error) = {2, 3}
    /\ lastHandle.value.logBefore # <<>>

(***************************************************************************)
(* Analyzer (core/Analyzer): analyze and cancel.  analyze awaits the       *)
(* parser and then each enabled analyzer in turn; cancel may be called     *)
(* between any two of these steps.                                         *)
(***************************************************************************)

besideAnalyzer == <<nonCacheVars, cacheVars, configVars, progressVars, withProgressVars,
                    retryVars, handlerVars, watchVars>>

\* the analyzers analyze awaits, in the order of its code
AsyncPhases == <<"bundle", "dependency", "code">>

\* the `if` in front of each analyzer
PhaseEnabled(phase, options, hasModules) ==
    IF phase = "bundle" THEN options.bundle /\ hasModules
    ELSE IF phase = "dependency" THEN options.dependency /\ hasModules
    ELSE options.code

\* analyze runs on after the await at place `from` of AsyncPhases (0: the parser) was
\* fulfilled: it starts the next enabled analyzer and awaits it, or generates the
\* suggestions, returns the result and clears abortController in its finally block
RunOn(from, options, hasModules) ==
    LET later == { k \in (from + 1)..Len(AsyncPhases) :
                     PhaseEnabled(AsyncPhases[k], options, hasModules) }
    IN IF later # {}
       THEN LET k == CHOOSE n \in later : \A m \in later : n <= m IN
            /\ analyzeAt' = AsyncPhases[k]
            /\ startedPhases' = Append(startedPhases, AsyncPhases[k])
            /\ UNCHANGED abortController
       ELSE /\ analyzeAt' = "resolved"
            /\ startedPhases' = Append(startedPhases, "suggestions")
            /\ abortController' = Null

\* analyze(config) with a valid config, up to `await parser.parse(projectPath)`
CallAnalyze ==
    /\ pc = "analyzer"
    /\ analyzeAt \in {"idle", "resolved", "rejected"}
    /\ analyzeOptions' \in [bundle : BOOLEAN, dependency : BOOLEAN, code : BOOLEAN]
    /\ abortController' = Some([aborted |-> FALSE])
    /\ analyzeAt' = "parse"
    /\ startedPhases' = <<>>
    /\ cancelledAt' = Null
    /\ UNCHANGED <<parsedModules, besideAnalyzer>>

\* parser.parse settles: parsedData is what it parsed, what a recovery strategy
\* returned, or the empty fallback
ParseSettles ==
    /\ pc = "analyzer"
    /\ analyzeAt = "parse"
    /\ \E hasModules \in BOOLEAN :
         /\ parsedModules' = hasModules
         /\ RunOn(0, analyzeOptions, hasModules)
    /\ UNCHANGED <<analyzeOptions, cancelledAt, besideAnalyzer>>

\* the analyzer analyze awaits settles: analyze runs on, or throws AnalysisError
PhaseSettles ==
    /\ pc = "analyzer"
    /\ \E k \in 1..Len(AsyncPhases) :
         /\ analyzeAt = AsyncPhases[k]
         /\ \/ RunOn(k, analyzeOptions, parsedModules)
            \/ /\ analyzeAt' = "rejected"
               /\ abortController' = Null
               /\ UNCHANGED startedPhases
    /\ UNCHANGED <<analyzeOptions, parsedModules, cancelledAt, besideAnalyzer>>

\* cancel()
Cancel ==
    /\ pc = "analyzer"
    /\ IF abortController # Null
       THEN /\ abortController' = Some([aborted |-> TRUE])
            /\ cancelledAt' = IF cancelledAt = Null THEN Some(Range(startedPhases))
                              ELSE cancelledAt
       ELSE UNCHANGED <<abortController, cancelledAt>>
    /\ UNCHANGED <<analyzeAt, analyzeOptions, parsedModules, startedPhases, besideAnalyzer>>

InitAnalyzer ==
    /\ modules = <<>>
    /\ graph = [nodes |-> <<>>, edges |-> <<>>]
    /\ pc = "analyzer"
    /\ NoAnalysis
    /\ NoCache
    /\ NoWatch
    /\ NoConfig
    /\ NoProgress
    /\ NoWithProgress
    /\ NoRetry
    /\ NoHandler
    /\ NoAnalyzer

NextAnalyzer == CallAnalyze \/ ParseSettles \/ PhaseSettles \/ Cancel

SpecAnalyzer == InitAnalyzer /\ [][NextAnalyzer]_vars

(***************************************************************************)
(* C27: after cancel() was called while analyze() was in progress, no      *)
(* analysis phase (bundle, dependency, code, suggestions) that had not     *)
(* started before the cancel starts, and the analyze promise does not      *)
(* resolve with a full result; cancel() with no analysis running changes   *)
(* nothing.                                                                *)
(***************************************************************************)
CancelStopsAnalysis ==
    /\ cancelledAt # Null =>
         /\ Range(startedPhases) \subseteq cancelledAt.value
         /\ analyzeAt # "resolved"
    /\ analyzeAt \in {"idle", "resolved", "rejected"} => abortController = Null

(***************************************************************************)
(* WatchManager (watch): start, stop, handleFileChange, performAnalysis.   *)
(* File names and patterns are sequences of their pieces.                  *)
(***************************************************************************)

besideWatch == <<nonCacheVars, cacheVars, configVars, progressVars, withProgressVars,
                 retryVars, handlerVars, analyzerVars>>

MaxChanges == 3

\* options.patterns as the constructor sets it
patterns ==
    << <<"**/", "*", ".js">>, <<"**/", "*", ".ts">>, <<"**/", "*", ".jsx">>,
       <<"**/", "*", ".tsx">>, <<"**/", "*", ".vue">> >>

\* options.exclude as the constructor sets it
exclude ==
    << <<"**/", "node_modules", "/", "**">>, <<"**/", ".git", "/", "**">>,
       <<"**/", "dist", "/", "**">>, <<"**/", "build", "/", "**">> >>

\* the pieces that begin with a dot
DotPieces == {".js", ".ts", ".jsx", ".tsx", ".vue", ".md", ".git"}

\* filename.endsWith(suffix)
EndsWith(name, suffix) ==
    /\ Len(suffix) <= Len(name)
    /\ SubSeq(name, Len(name) - Len(suffix) + 1, Len(name)) = suffix

\* filename.includes(part)
IncludesAll(name, part) ==
    \E i \in 1..(Len(name) - Len(part) + 1) : SubSeq(name, i, i + Len(part) - 1) = part

\* matchPattern(filename, pattern)
matchPattern(name, pattern) ==
    LET cleanPattern == IF pattern # <<>> /\ Head(pattern) = "**/" THEN Tail(pattern)
                        ELSE pattern
    IN IF Len(cleanPattern) >= 2 /\ cleanPattern[1] = "*" /\ cleanPattern[2] \in DotPieces
       THEN EndsWith(name, Tail(cleanPattern))
       ELSE IncludesAll(name, SelectSeq(cleanPattern, LAMBDA piece : piece \notin {"*", "**"}))

\* shouldWatch(filename)
shouldWatch(name) ==
    IF \E i \in 1..Len(exclude) : matchPattern(name, exclude[i]) THEN FALSE
    ELSE \E i \in 1..Len(patterns) : matchPattern(name, patterns[i])

FileNames ==
    { <<"src", "/", "a", ".ts">>, <<"c", ".vue">>, <<"README", ".md">>,
      <<"node_modules", "/", "x", ".js">>, <<"src", "/", "dist", "/", "b", ".js">> }

\* performAnalysis(reason) up to `await this.analyzer.analyze(this.config)`: TRUE when
\* it started an analysis, FALSE when it returned because one is running
PerformAnalysis ==
    IF isAnalyzing
    THEN UNCHANGED <<isAnalyzing, analysesRunning, analysesStarted, unanalysed>>
    ELSE /\ isAnalyzing' = TRUE
         /\ analysesRunning' = analysesRunning + 1
         /\ analysesStarted' = analysesStarted + 1
         /\ unanalysed' = FALSE

\* start(), also after stop(): the first analysis is awaited before the watcher is set
\* (explored while at most MaxChanges analyses were started)
StartWatch ==
    /\ pc = "watch"
    /\ watcher \in {"new", "stopped"}
    /\ analysesStarted <= MaxChanges
    /\ PerformAnalysis
    /\ watcher' = IF isAnalyzing THEN "watching" ELSE "starting"
    /\ UNCHANGED <<debounceTimer, watchedChanges, besideWatch>>

\* analyzer.analyze settles and performAnalysis runs to its end; a rejection during
\* start() leaves the manager without a watcher
AnalysisSettles ==
    /\ pc = "watch"
    /\ analysesRunning > 0
    /\ analysesRunning' = analysesRunning - 1
    /\ isAnalyzing' = FALSE
    /\ \E fulfilled \in BOOLEAN :
         watcher' = IF watcher = "starting"
                    THEN (IF fulfilled THEN "watching" ELSE "failed")
                    ELSE watcher
    /\ UNCHANGED <<debounceTimer, watchedChanges, analysesStarted, unanalysed, besideWatch>>

\* the FSWatcher reports a change: handleFileChange for a watched file
FileChange ==
    /\ pc = "watch"
    /\ watcher = "watching"
    /\ watchedChanges < MaxChanges
    /\ \E name \in FileNames :
         IF shouldWatch(name)
         THEN /\ debounceTimer' = Some([filename |-> name, pending |-> TRUE])
              /\ watchedChanges' = watchedChanges + 1
              /\ unanalysed' = TRUE
         ELSE UNCHANGED <<debounceTimer, watchedChanges, unanalysed>>
    /\ UNCHANGED <<watcher, isAnalyzing, analysesRunning, analysesStarted, besideWatch>>

\* the debounce timer fires and calls performAnalysis
TimerFires ==
    /\ pc = "watch"
    /\ debounceTimer # Null
    /\ debounceTimer.value.pending
    /\ debounceTimer' = Some([debounceTimer.value EXCEPT !.pending = FALSE])
    /\ PerformAnalysis
    /\ UNCHANGED <<watcher, watchedChanges, besideWatch>>

\* stop()
StopWatch ==
    /\ pc = "watch"
    /\ watcher = "watching"
    /\ watcher' = "stopped"
    /\ debounceTimer' = Null
    /\ unanalysed' = FALSE
    /\ UNCHANGED <<isAnalyzing, analysesRunning, watchedChanges, analysesStarted, besideWatch>>

InitWatch ==
    /\ modules = <<>>
    /\ graph = [nodes |-> <<>>, edges |-> <<>>]
    /\ pc = "watch"
    /\ NoAnalysis
    /\ NoCache
    /\ NoConfig
    /\ NoProgress
    /\ NoWithProgress
    /\ NoRetry
    /\ NoHandler
    /\ NoAnalyzer
    /\ NoWatch

NextWatch == StartWatch \/ AnalysisSettles \/ FileChange \/ TimerFires \/ StopWatch

SpecWatch == InitWatch /\ [][NextWatch]_vars

(***************************************************************************)
(* C28: while the manager is started and not stopped, at most one analysis *)
(* runs at a time, and a change to a watched file is not lost: as long as  *)
(* no analysis has started after the change, the debounce timer that will  *)
(* start one is pending (so that, timers firing and analyses terminating,  *)
(* the change is eventually followed by an analysis that starts after it). *)
(***************************************************************************)
ChangeNotLost ==
    /\ analysesRunning <= 1
    /\ (watcher = "watching" /\ unanalysed) =>
          (debounceTimer # Null /\ debounceTimer.value.pending)

\* the scheduling the claim assumes: a pending timer fires and a running analysis
\* settles
SpecWatchFair == SpecWatch /\ WF_vars(TimerFires) /\ WF_vars(AnalysisSettles)

\* the temporal reading of the second half of C28; a state that violates ChangeNotLost
\* and is followed by no further change violates it under SpecWatchFair
ChangesEventuallyAnalysed ==
    (watcher = "watching" /\ unanalysed) ~> (watcher # "watching" \/ ~unanalysed)

====
